---- MODULE Spec2Model ----
(***************************************************************************)
(* A model of the omnipulse-agent sampling core:                           *)
(*   - the watchdog diff engine (watchdog.go: collectWatchdog, samePIDs,   *)
(*     sendWatchdogToBackend),                                             *)
(*   - the metrics loop and its backoff (main.go: runAgent, nextSleep).    *)
(*                                                                         *)
(* Process names are modelled by their rank in Go's string order: 0 is the *)
(* empty string (the smallest string), larger numbers are larger names.    *)
(* Times are clock ticks; time.Format(RFC3339) keeps whole seconds only.   *)
(***************************************************************************)
EXTENDS Integers, Sequences, FiniteSets, TLC

VARIABLES
    previous,    \* wdState.previous: name -> [PIDs, LastSeenAt]
    mu,          \* wdState.mu: the thread holding it, or NoThread
    clock,       \* the wall clock read by time.Now()
    pc,          \* per thread: position inside sendWatchdogToBackend
    procs,       \* per thread: result of process.ProcessesWithContext
    current,     \* per thread: local map name -> []PIDs
    now,         \* per thread: local now
    prevBefore,  \* per thread: the snapshot the diff loops ranged over
    diffs,       \* per thread: entries appended by the two loops (unordered)
    entries,     \* per thread: entries returned by collectWatchdog
    err,         \* per thread: collectWatchdog returned an error
    sent,        \* per thread: "none" | "ok" | "failed" (sendWatchdog outcome)
    lastOK       \* summary of the successful round before the one in progress

wdVars == <<previous, mu, clock, pc, procs, current, now, prevBefore, diffs,
            entries, err, sent, lastOK>>

VARIABLES
    spA, spB,    \* samePIDs: the two PID slices
    spDone,      \* samePIDs: the call has returned
    spOut        \* samePIDs: the result (FALSE before the call)

spVars == <<spA, spB, spDone, spOut>>

VARIABLES
    nsInterval,  \* nextSleep: interval (time.Duration)
    nsFailCount, \* nextSleep: failCount (int)
    nsOut        \* nextSleep: <<>> before the call, then the result

nsVars == <<nsInterval, nsFailCount, nsOut>>

VARIABLES
    agPc,          \* runAgent: position in the loop
    cfgInterval,   \* cfg.Interval
    stopCh,        \* "nil" | "open" | "closed"
    failCount,     \* runAgent: failCount
    prevNet,       \* runAgent: prevNet
    hasPrev,       \* runAgent: hasPrev
    prevIfaces,    \* runAgent: prevIfaces
    hasPrevIfaces, \* runAgent: hasPrevIfaces
    payload,       \* the metrics payload of the round in progress
    metricsCall,   \* what the round's collectMetrics call was given and read
    ifaceMetrics,  \* runAgent: ifaceMetrics of the round in progress
    ifaceOK,       \* runAgent: ifaceOK of the round in progress
    netSent,       \* "none" | "ok" | "failed" (sendNetworkMetrics outcome)
    ifaceCall,     \* what the round's collectIfaceMetrics call was given
    seenIfaces,    \* the interfaces read in any round so far
    sleepFor,      \* runAgent: sleepFor
    elapsed,       \* runAgent: elapsed
    wait,          \* runAgent: wait
    outcomes       \* the response to each metrics dispatch so far, oldest first

agVars == <<agPc, cfgInterval, stopCh, failCount, prevNet, hasPrev, prevIfaces,
            hasPrevIfaces, payload, metricsCall, ifaceMetrics, ifaceOK,
            netSent, ifaceCall,
            seenIfaces, sleepFor, elapsed, wait, outcomes>>

VARIABLES
    sdPrev, sdCurr, \* safeDelta, netDelta: the two NetTotals
    sdSafeDone,     \* safeDelta has returned
    sdSafe,         \* safeDelta(prev.In, curr.In): value and ok
    sdNetDone,      \* netDelta has returned
    sdNet           \* netDelta(prev, curr): <<in, out>>

sdVars == <<sdPrev, sdCurr, sdSafeDone, sdSafe, sdNetDone, sdNet>>

\* one call of a dispatch function: which one, what client.Do gave it, and the
\* error it returned
VARIABLES
    sendKind,
    sendResp,
    sendErr
dsVars == <<sendKind, sendResp, sendErr>>

\* one call of loadConfig: its arguments and environment, and what it returned
VARIABLES
    lcArgs,
    lcDone,
    lcOut
lcVars == <<lcArgs, lcDone, lcOut>>

\* one call of resolveServiceName: its arguments and the label it returned
VARIABLES
    rsPort,
    rsProcess,
    rsDone,
    rsName
rsVars == <<rsPort, rsProcess, rsDone, rsName>>

fnVars == <<dsVars, lcVars, rsVars>>

vars == <<wdVars, spVars, nsVars, agVars, sdVars, fnVars>>

----------------------------------------------------------------------------
(* Bounds and constants *)

MaxTime == 2          \* the clock runs over 0..MaxTime ticks
TicksPerSec == 2      \* clock ticks per second
MaxPid == 2           \* PIDs of the varying processes are 1..MaxPid
NumBulk == 100        \* size of the block of always-together processes
MaxEntries == 100     \* watchdog.go: "Keep only top 100 entries"

MaxLen == 3           \* samePIDs is applied to slices of at most MaxLen PIDs
MaxFailArg == 10      \* nextSleep is applied to failCount in -2..MaxFailArg
MaxRounds == 3        \* runAgent is followed for at most MaxRounds rounds

NoThread == 0
EmptyName == 0
EmptyMap == [n \in {} |-> 0]
NoRound == [valid |-> FALSE]

----------------------------------------------------------------------------
(* Process listings offered by the provider *)

Proc(pid, name) == [Pid |-> pid, Name |-> name]

\* names of the varying processes in the plain specification
VarNames == {EmptyName, 1, 2}
VarProcs == {Proc(p, n) : p \in 1..MaxPid, n \in VarNames}

\* listings of at most two processes, PIDs distinct within a listing
VarListings ==
    {<<>>} \cup {<<p>> : p \in VarProcs}
           \cup {l \in {<<p, q>> : p \in VarProcs, q \in VarProcs} :
                     l[1].Pid # l[2].Pid}

\* a block of NumBulk processes with names 2..NumBulk+1, one PID each
BulkNames == 2..(NumBulk + 1)
BulkListing == [i \in 1..NumBulk |-> Proc(1000 + i, i + 1)]
HighName == NumBulk + 2
CapProcs == {Proc(n, n) : n \in {1, HighName}}
RECURSIVE SeqOfSet(_)
SeqOfSet(S) ==
    IF S = {} THEN <<>>
    ELSE LET x == CHOOSE y \in S : TRUE IN <<x>> \o SeqOfSet(S \ {x})
CapListings ==
    {b \o SeqOfSet(v) : b \in {<<>>, BulkListing}, v \in SUBSET CapProcs}

\* listings for overlapping rounds
ConcListings == {<<>>, <<Proc(1, 1)>>, <<Proc(2, 1)>>}

----------------------------------------------------------------------------
(* watchdog.go: pure helpers *)

\* time.Time.Format(time.RFC3339): whole seconds, sub-second part dropped
FormatRFC3339(t) == t \div TicksPerSec

\* lines 58-66: current[name] = append(current[name], p.Pid), "" skipped
PidsOf(ps, name) ==
    LET sel == SelectSeq(ps, LAMBDA p : p.Name = name)
    IN  [i \in 1..Len(sel) |-> sel[i].Pid]

BuildCurrent(ps) ==
    LET names == {ps[i].Name : i \in 1..Len(ps)} \ {EmptyName}
    IN  [n \in names |-> PidsOf(ps, n)]

\* faulty variants of samePIDs: lengths only; element-wise, order-sensitive
samePIDsLenOnly(a, b) == Len(a) = Len(b)
samePIDsOrdered(a, b) == a = b

\* lines 140-154
samePIDs(a, b) ==
    IF Len(a) # Len(b) THEN FALSE
    ELSE LET setA == {a[i] : i \in 1..Len(a)}
         IN  \A i \in 1..Len(b) : b[i] \in setA

Entry(name, status, rc, seen, pids) ==
    [Name |-> name, Status |-> status, RestartCount |-> rc,
     LastSeenAt |-> seen, PIDs |-> pids]

\* lines 75-102: one entry per name of the previous snapshot
PrevEntry(name, prev, cur, t) ==
    IF name \notin DOMAIN cur
    THEN Entry(name, "crashed", 0, FormatRFC3339(prev[name].LastSeenAt), <<>>)
    ELSE IF ~samePIDs(prev[name].PIDs, cur[name])
         THEN Entry(name, "restarted", 1, FormatRFC3339(t), cur[name])
         ELSE Entry(name, "running", 0, FormatRFC3339(t), cur[name])

\* lines 105-115: names not in the previous snapshot
NewEntry(name, cur, t) ==
    Entry(name, "running", 0, FormatRFC3339(t), cur[name])

\* faulty variant of DiffEntries: the loop over first sightings is missing
DiffEntriesNoNew(prev, cur, t) ==
    {PrevEntry(n, prev, cur, t) : n \in DOMAIN prev}

DiffEntries(prev, cur, t) ==
    {PrevEntry(n, prev, cur, t) : n \in DOMAIN prev}
        \cup {NewEntry(n, cur, t) : n \in DOMAIN cur \ DOMAIN prev}

\* lines 118-124
NewSnapshot(cur, t) ==
    [n \in DOMAIN cur |-> [PIDs |-> cur[n], LastSeenAt |-> t]]

\* lines 127-129: sort.Slice by Name ascending (entries of one name in any
\* order), computed by halving the set at its median name
RECURSIVE SortByName(_)
SortByName(S) ==
    LET names == {e.Name : e \in S}
        half == Cardinality(names) \div 2
        mid == CHOOSE p \in names : Cardinality({n \in names : n < p}) = half
    IN  IF Cardinality(names) <= 1 THEN SeqOfSet(S)
        ELSE SortByName({e \in S : e.Name < mid})
                 \o SortByName({e \in S : ~(e.Name < mid)})

\* faulty variant of Truncate: the cap is not applied
TruncateOff(s) == s

\* lines 132-134
Truncate(s) ==
    IF Len(s) > MaxEntries THEN SubSeq(s, 1, MaxEntries) ELSE s

\* lines 208-217: sendWatchdog fails on a transport error or a status # 200
\* client.Do: an error ("transport", "timeout") and no response, or no error
\* ("") and a response with a status
Response(e, status) == [Err |-> e, StatusCode |-> status]
Responses ==
    {Response(e, 0) : e \in {"transport", "timeout"}}
        \cup {Response("", s) : s \in {200, 401, 500}}
sendWatchdogOK(resp) == resp.Err = "" /\ resp.StatusCode = 200

----------------------------------------------------------------------------
(* time.Duration: a signed 64-bit count of nanoseconds, held as four 16-bit *)
(* limbs, least significant first, in two's complement.                     *)

Limb == 65536
Dur(l0, l1, l2, l3) == <<l0, l1, l2, l3>>

\* carry propagation, the carry out of the top limb is lost (mod 2^64)
Wrap64(x) ==
    LET c1 == x[1] \div Limb
        y2 == x[2] + c1
        c2 == y2 \div Limb
        y3 == x[3] + c2
        c3 == y3 \div Limb
        y4 == x[4] + c3
    IN  <<x[1] % Limb, y2 % Limb, y3 % Limb, y4 % Limb>>

\* d * m for a small non-negative int m, as Go computes it (wrapping)
DurMul(d, m) == Wrap64(<<d[1] * m, d[2] * m, d[3] * m, d[4] * m>>)
DurSub(a, b) == Wrap64(<<a[1] - b[1], a[2] - b[2], a[3] - b[3], a[4] - b[4]>>)
DurNeg(d) == d[4] >= Limb \div 2

\* unsigned comparison, most significant limb first
ULess(a, b) ==
    \E i \in 1..Len(a) :
        /\ a[i] < b[i]
        /\ \A j \in (i + 1)..Len(a) : a[j] = b[j]

\* signed a < b
DurLess(a, b) ==
    IF DurNeg(a) # DurNeg(b) THEN DurNeg(a) ELSE ULess(a, b)

DurZero == Dur(0, 0, 0, 0)
Second == Dur(51712, 15258, 0, 0)           \* time.Second = 1000000000
Seconds(n) == DurMul(Second, n)
SixtySeconds == Seconds(60)                  \* 60 * time.Second
MaxDuration == Dur(65535, 65535, 65535, 32767)

----------------------------------------------------------------------------
(* main.go: nextSleep *)

\* lines 568-573
minInt(a, b) == IF a < b THEN a ELSE b

\* faulty variant of nextSleep: the 60s cap is missing
nextSleepNoCap(interval, fails) ==
    IF fails <= 0 THEN interval
    ELSE LET backoff == DurMul(interval, 2 ^ minInt(fails, 4))
         IN  IF DurLess(backoff, interval) THEN interval ELSE backoff

\* faulty variant of nextSleep: the result is not raised to interval
nextSleepNoFloor(interval, fails) ==
    IF fails <= 0 THEN interval
    ELSE LET backoff == DurMul(interval, 2 ^ minInt(fails, 4))
         IN  IF DurLess(SixtySeconds, backoff) THEN SixtySeconds ELSE backoff

\* faulty variant of nextSleep: the shift count wraps instead of saturating
nextSleepModExp(interval, fails) ==
    IF fails <= 0 THEN interval
    ELSE LET backoff == DurMul(interval, 2 ^ (fails % 4))
             capped == IF DurLess(SixtySeconds, backoff) THEN SixtySeconds
                       ELSE backoff
         IN  IF DurLess(capped, interval) THEN interval ELSE capped

\* lines 554-566
nextSleep(interval, fails) ==
    IF fails <= 0 THEN interval
    ELSE LET backoff == DurMul(interval, 2 ^ minInt(fails, 4))
             capped == IF DurLess(SixtySeconds, backoff) THEN SixtySeconds
                       ELSE backoff
         IN  IF DurLess(capped, interval) THEN interval ELSE capped

\* intervals the function is applied to: whole seconds and values near the
\* point where interval * 16 no longer fits in 64 bits
Intervals ==
    {Seconds(n) : n \in {1, 4, 10, 30, 59, 60, 61, 900}}
        \cup {Dur(65535, 65535, 65535, 2047), Dur(0, 0, 0, 2048),
              Dur(1, 0, 0, 4096), Dur(0, 0, 0, 16384), MaxDuration}

NsInit ==
    /\ nsInterval \in Intervals
    /\ nsFailCount \in (-2)..MaxFailArg
    /\ nsOut = <<>>

CallNextSleep ==
    /\ nsOut = <<>>
    /\ nsOut' = nextSleep(nsInterval, nsFailCount)
    /\ UNCHANGED <<nsInterval, nsFailCount>>

NsIdle == nsInterval = DurZero /\ nsFailCount = 0 /\ nsOut = <<>>

----------------------------------------------------------------------------
(* main.go: the metrics loop *)

\* a uint64 counter holding the small number n, in the limbs of Dur
U64(n) == Dur(n % Limb, n \div Limb, 0, 0)

NetTotals(i, o) == [In |-> i, Out |-> o]
NoTotals == NetTotals(DurZero, DurZero)

\* gnet.IOCounters as read by readNetTotals: an error, or the totals
NetReads ==
    {[Err |-> TRUE, Totals |-> NoTotals]}
        \cup {[Err |-> FALSE, Totals |-> NetTotals(U64(i), U64(o))] :
                 i \in 1..2, o \in 1..2}

\* lines 472-486
readNetTotals(r) ==
    IF r.Err THEN [netTotals |-> NoTotals, netOK |-> FALSE]
    ELSE [netTotals |-> r.Totals, netOK |-> TRUE]

\* lines 547-552: the differences are taken in uint64 and converted to int64,
\* which keeps the 64 bits
netDelta(prev, curr) ==
    IF ULess(curr.In, prev.In) \/ ULess(curr.Out, prev.Out)
    THEN <<DurZero, DurZero>>
    ELSE <<DurSub(curr.In, prev.In), DurSub(curr.Out, prev.Out)>>

\* cpu.Percent, mem.VirtualMemory, disk.Usage: an error, or a percentage
PctRead(e, v) == [Err |-> e, Val |-> v]

\* lines 445-470: readCPU, readMem, readDisk return 0 with the error
readPct(r) == IF r.Err THEN 0 ELSE r.Val

\* what the four providers answer in one round
HostRead(c, m, d, n) == [Cpu |-> c, Mem |-> m, Disk |-> d, Net |-> n]

\* a host whose cpu, memory and disk reads succeed
HealthyReads(nets) ==
    {HostRead(PctRead(FALSE, 10), PctRead(FALSE, 20), PctRead(FALSE, 30), n) :
        n \in nets}

\* faulty variant of collectMetrics: a failed cpu read gives up the payload
collectMetricsAborts(prev, hadPrev, h) ==
    LET net == readNetTotals(h.Net)
        d == IF net.netOK /\ hadPrev THEN netDelta(prev, net.netTotals)
             ELSE <<DurZero, DurZero>>
    IN  [payload |-> IF h.Cpu.Err
                     THEN [CPU |-> 0, Mem |-> 0, Disk |-> 0,
                           NetIn |-> DurZero, NetOut |-> DurZero]
                     ELSE [CPU |-> readPct(h.Cpu), Mem |-> readPct(h.Mem),
                           Disk |-> readPct(h.Disk),
                           NetIn |-> d[1], NetOut |-> d[2]],
         netTotals |-> net.netTotals, netOK |-> net.netOK]

\* lines 323-365
collectMetrics(prev, hadPrev, h) ==
    LET net == readNetTotals(h.Net)
        d == IF net.netOK /\ hadPrev THEN netDelta(prev, net.netTotals)
             ELSE <<DurZero, DurZero>>
    IN  [payload |-> [CPU |-> readPct(h.Cpu), Mem |-> readPct(h.Mem),
                      Disk |-> readPct(h.Disk),
                      NetIn |-> d[1], NetOut |-> d[2]],
         netTotals |-> net.netTotals, netOK |-> net.netOK]

\* faulty variant of sendMetricsOK: only server errors count as failures
sendMetricsOK5xx(resp) == resp.Err = "" /\ resp.StatusCode < 500

\* lines 384-399: sendMetrics fails on an error or a status >= 300
sendMetricsOK(resp) == resp.Err = "" /\ resp.StatusCode < 300

\* lines 428-440: sendNetworkMetrics fails on an error or a status >= 300
sendNetworkMetricsOK(resp) == resp.Err = "" /\ resp.StatusCode < 300

\* lines 535-540: value is int64(curr - prev), the 64 bits of the uint64
\* difference read as a signed number
safeDelta(prev, curr) ==
    IF ULess(curr, prev) THEN [value |-> DurZero, ok |-> FALSE]
    ELSE [value |-> DurSub(curr, prev), ok |-> TRUE]

\* gnet.IOCountersStat of one interface
Stat(br, bs, pr, ps, ei, eo) ==
    [BytesRecv |-> U64(br), BytesSent |-> U64(bs), PacketsRecv |-> U64(pr),
     PacketsSent |-> U64(ps), Errin |-> U64(ei), Errout |-> U64(eo)]
Counters == {"BytesRecv", "BytesSent", "PacketsRecv", "PacketsSent", "Errin", "Errout"}

IfaceError == [Err |-> TRUE, Stats |-> EmptyMap]
IfaceStats(m) == [Err |-> FALSE, Stats |-> m]

\* gnet.IOCounters as read by collectIfaceMetrics, loopback already left out:
\* an error, or a map interface name -> stat
IfaceReads ==
    {IfaceError,
     IfaceStats([n \in {"eth0"} |-> Stat(1, 1, 1, 1, 0, 0)]),
     IfaceStats([n \in {"eth0"} |-> Stat(2, 2, 2, 2, 0, 0)])}

\* readings of a host whose second interface comes and goes
IfaceReadsTwo ==
    {IfaceError, IfaceStats(EmptyMap),
     IfaceStats([n \in {"eth0"} |-> Stat(1, 1, 1, 1, 0, 0)]),
     IfaceStats([n \in {"eth0"} |-> Stat(2, 2, 2, 2, 0, 0)]),
     IfaceStats([n \in {"eth1"} |-> Stat(5, 5, 5, 5, 1, 1)]),
     IfaceStats([n \in {"eth0", "eth1"} |->
                    IF n = "eth0" THEN Stat(2, 2, 2, 2, 0, 0)
                    ELSE Stat(5, 5, 5, 5, 1, 1)]),
     IfaceStats([n \in {"eth0", "eth1"} |->
                    IF n = "eth0" THEN Stat(3, 3, 1, 3, 0, 0)
                    ELSE Stat(6, 5, 7, 5, 1, 2)])}

\* NetIfaceMetric of interface n between the stats old and curr
IfaceMetric(n, old, curr) ==
    [Iface |-> n,
     Delta |-> [c \in Counters |-> safeDelta(old[c], curr[c]).value]]

\* faulty variant of collectIfaceMetrics: one valid counter is enough
collectIfaceMetricsAnyValid(prev, hadPrev, r) ==
    IF r.Err THEN [metrics |-> {}, next |-> prev, ok |-> FALSE]
    ELSE IF ~hadPrev THEN [metrics |-> {}, next |-> r.Stats, ok |-> FALSE]
    ELSE LET valid == {n \in DOMAIN r.Stats \cap DOMAIN prev :
                          \E c \in Counters : safeDelta(prev[n][c], r.Stats[n][c]).ok}
             metrics == {IfaceMetric(n, prev[n], r.Stats[n]) : n \in valid}
         IN  [metrics |-> metrics, next |-> r.Stats, ok |-> metrics # {}]

\* faulty variant of collectIfaceMetrics: an interface without a previous
\* sample is reported with zero deltas
collectIfaceMetricsZeroFirst(prev, hadPrev, r) ==
    IF r.Err THEN [metrics |-> {}, next |-> prev, ok |-> FALSE]
    ELSE LET known == DOMAIN r.Stats \cap DOMAIN prev
             valid == {n \in known :
                          \A c \in Counters : safeDelta(prev[n][c], r.Stats[n][c]).ok}
             metrics == {IfaceMetric(n, prev[n], r.Stats[n]) : n \in valid}
                            \cup {IfaceMetric(n, r.Stats[n], r.Stats[n]) :
                                     n \in DOMAIN r.Stats \ known}
         IN  [metrics |-> metrics, next |-> r.Stats, ok |-> metrics # {}]

\* lines 488-533
collectIfaceMetrics(prev, hadPrev, r) ==
    IF r.Err THEN [metrics |-> {}, next |-> prev, ok |-> FALSE]
    ELSE IF ~hadPrev THEN [metrics |-> {}, next |-> r.Stats, ok |-> FALSE]
    ELSE LET valid == {n \in DOMAIN r.Stats \cap DOMAIN prev :
                          \A c \in Counters : safeDelta(prev[n][c], r.Stats[n][c]).ok}
             metrics == {IfaceMetric(n, prev[n], r.Stats[n]) : n \in valid}
         IN  [metrics |-> metrics, next |-> r.Stats, ok |-> metrics # {}]

\* lines 36-43, 368: json.Marshal writes every field of MetricPayload, no
\* field is tagged omitempty
MarshalledFields(p) == DOMAIN p

NoPayload ==
    [CPU |-> 0, Mem |-> 0, Disk |-> 0, NetIn |-> DurZero, NetOut |-> DurZero]

\* the arguments of the round's collectMetrics call and what the providers
\* answered; idle once the metrics part of the round is over
MetricsCall(prev, hadPrev, h) ==
    [called |-> TRUE, prev |-> prev, hasPrev |-> hadPrev, read |-> h]
NoMetricsCall ==
    [called |-> FALSE, prev |-> NoTotals, hasPrev |-> FALSE,
     read |-> HostRead(PctRead(TRUE, 0), PctRead(TRUE, 0), PctRead(TRUE, 0),
                       [Err |-> TRUE, Totals |-> NoTotals])]

\* the arguments of the round's collectIfaceMetrics call, the reading it took
\* and the interfaces read in earlier rounds; idle between two calls
IfaceCall(prev, hadPrev, r, seen) ==
    [called |-> TRUE, prev |-> prev, hasPrev |-> hadPrev, read |-> r,
     seen |-> seen]
NoIfaceCall ==
    [called |-> FALSE, prev |-> EmptyMap, hasPrev |-> FALSE,
     read |-> IfaceError, seen |-> {}]

\* lines 212-220: runAgent starts with cfg.Interval among intervals and a
\* stop channel among chans
AgInitWith(intervals, chans) ==
    /\ agPc = "top"
    /\ cfgInterval \in intervals
    /\ stopCh \in chans
    /\ failCount = 0
    /\ prevNet = NoTotals
    /\ hasPrev = FALSE
    /\ prevIfaces = EmptyMap
    /\ hasPrevIfaces = FALSE
    /\ payload = NoPayload
    /\ metricsCall = NoMetricsCall
    /\ ifaceMetrics = {}
    /\ ifaceOK = FALSE
    /\ netSent = "none"
    /\ ifaceCall = NoIfaceCall
    /\ seenIfaces = {}
    /\ sleepFor = DurZero
    /\ elapsed = DurZero
    /\ wait = DurZero
    /\ outcomes = <<>>

AgInit == AgInitWith({Seconds(10), Seconds(60)}, {"nil", "open"})

AgIdle ==
    /\ agPc = "stopped"
    /\ cfgInterval = DurZero
    /\ stopCh = "nil"
    /\ failCount = 0
    /\ prevNet = NoTotals
    /\ hasPrev = FALSE
    /\ prevIfaces = EmptyMap
    /\ hasPrevIfaces = FALSE
    /\ payload = NoPayload
    /\ metricsCall = NoMetricsCall
    /\ ifaceMetrics = {}
    /\ ifaceOK = FALSE
    /\ netSent = "none"
    /\ ifaceCall = NoIfaceCall
    /\ seenIfaces = {}
    /\ sleepFor = DurZero
    /\ elapsed = DurZero
    /\ wait = DurZero
    /\ outcomes = <<>>

\* the variables of the per-interface part of a round
ifVars == <<prevIfaces, hasPrevIfaces, ifaceMetrics, ifaceOK, netSent,
            ifaceCall, seenIfaces>>
\* the variables of the pacing part of a round
paceVars == <<sleepFor, elapsed, wait>>

\* program.Stop (lines 85-90): close(p.stopCh)
CloseStop ==
    /\ stopCh = "open"
    /\ stopCh' = "closed"
    /\ UNCHANGED <<agPc, cfgInterval, failCount, prevNet, hasPrev, payload,
                   metricsCall, ifVars, paceVars, outcomes>>

\* faulty variant of Start: every launch gets a channel of its own
StartFresh ==
    /\ agPc = "stopped"
    /\ stopCh' = "open"
    /\ agPc' = "top"
    /\ failCount' = 0
    /\ prevNet' = NoTotals
    /\ hasPrev' = FALSE
    /\ prevIfaces' = EmptyMap
    /\ hasPrevIfaces' = FALSE
    /\ payload' = NoPayload
    /\ ifaceMetrics' = {}
    /\ ifaceOK' = FALSE
    /\ netSent' = "none"
    /\ sleepFor' = DurZero
    /\ elapsed' = DurZero
    /\ wait' = DurZero
    /\ UNCHANGED <<cfgInterval, metricsCall, ifaceCall, seenIfaces, outcomes>>

\* program.Start (lines 77-83) when no loop of this program is running: the
\* channel is made only if there is none, and runAgent begins with fresh
\* locals (lines 215-220)
Start ==
    /\ agPc = "stopped"
    /\ stopCh' = IF stopCh = "nil" THEN "open" ELSE stopCh
    /\ agPc' = "top"
    /\ failCount' = 0
    /\ prevNet' = NoTotals
    /\ hasPrev' = FALSE
    /\ prevIfaces' = EmptyMap
    /\ hasPrevIfaces' = FALSE
    /\ payload' = NoPayload
    /\ ifaceMetrics' = {}
    /\ ifaceOK' = FALSE
    /\ netSent' = "none"
    /\ sleepFor' = DurZero
    /\ elapsed' = DurZero
    /\ wait' = DurZero
    /\ UNCHANGED <<cfgInterval, metricsCall, ifaceCall, seenIfaces, outcomes>>

\* faulty variant of StopRequested: the stop signal is not looked at
StopIgnored == FALSE

\* lines 223-229: case <-stopCh is ready once the channel is closed
StopRequested == stopCh = "closed"

\* lines 222-230: the stop check at the top of the loop
LoopTopStops ==
    /\ agPc = "top"
    /\ StopRequested
    /\ agPc' = "stopped"
    /\ UNCHANGED <<cfgInterval, stopCh, failCount, prevNet, hasPrev, payload,
                   metricsCall, ifVars, paceVars, outcomes>>

\* faulty variant of AdvanceNet: a failed dispatch drops the baseline
AdvanceNetForgets(delivered, c, prev, hadPrev) ==
    IF ~delivered THEN [prevNet |-> NoTotals, hasPrev |-> FALSE]
    ELSE IF c.netOK THEN [prevNet |-> c.netTotals, hasPrev |-> TRUE]
    ELSE [prevNet |-> prev, hasPrev |-> hadPrev]

\* faulty variant of AdvanceNet: the baseline follows every reading
AdvanceNetAlways(delivered, c, prev, hadPrev) ==
    IF c.netOK THEN [prevNet |-> c.netTotals, hasPrev |-> TRUE]
    ELSE [prevNet |-> prev, hasPrev |-> hadPrev]

\* lines 241-246: prevNet and hasPrev after a dispatch that was delivered or
\* that failed
AdvanceNet(delivered, c, prev, hadPrev) ==
    IF delivered /\ c.netOK THEN [prevNet |-> c.netTotals, hasPrev |-> TRUE]
    ELSE [prevNet |-> prev, hasPrev |-> hadPrev]

\* lines 232-247: collect, dispatch, and the bookkeeping of the outcome
MetricsRoundOn(reads, resps) ==
    /\ agPc = "top"
    /\ ~StopRequested
    /\ Len(outcomes) < MaxRounds
    /\ \E r \in reads, resp \in resps :
          \E c \in {collectMetrics(prevNet, hasPrev, r)} :
          /\ payload' = c.payload
          /\ metricsCall' = MetricsCall(prevNet, hasPrev, r)
          /\ outcomes' = Append(outcomes, resp)
          /\ failCount' = IF sendMetricsOK(resp) THEN 0 ELSE failCount + 1
          /\ \E b \in {AdvanceNet(sendMetricsOK(resp), c, prevNet, hasPrev)} :
                prevNet' = b.prevNet /\ hasPrev' = b.hasPrev
    /\ agPc' = "iface"
    /\ UNCHANGED <<cfgInterval, stopCh, ifVars, paceVars>>

\* readings of a host whose two totals grow together
NetReadsPaired ==
    {r \in NetReads : r.Err \/ r.Totals.In = r.Totals.Out}

MetricsRound == MetricsRoundOn(HealthyReads(NetReadsPaired), Responses)

\* faulty variant of IfaceRoundOn: a failed per-interface dispatch counts as
\* a failure of the metrics loop
IfaceRoundThrottles(reads, resps) ==
    /\ agPc = "iface"
    /\ \E r \in reads :
          \E c \in {collectIfaceMetrics(prevIfaces, hasPrevIfaces, r)} :
          /\ ifaceMetrics' = c.metrics
          /\ ifaceOK' = c.ok
          /\ ifaceCall' = IfaceCall(prevIfaces, hasPrevIfaces, r, seenIfaces)
          /\ seenIfaces' = seenIfaces \cup DOMAIN r.Stats
          /\ IF c.ok /\ c.metrics # {}
             THEN \E resp \in resps :
                     IF sendNetworkMetricsOK(resp)
                     THEN netSent' = "ok" /\ failCount' = failCount
                     ELSE netSent' = "failed" /\ failCount' = failCount + 1
             ELSE netSent' = "none" /\ failCount' = failCount
          /\ IF c.next # EmptyMap
             THEN prevIfaces' = c.next /\ hasPrevIfaces' = TRUE
             ELSE UNCHANGED <<prevIfaces, hasPrevIfaces>>
    /\ metricsCall' = NoMetricsCall
    /\ agPc' = "pace"
    /\ UNCHANGED <<cfgInterval, stopCh, prevNet, hasPrev, payload,
                   paceVars, outcomes>>

\* lines 249-261: per-interface metrics; a failed dispatch is only logged
IfaceRoundOn(reads, resps) ==
    /\ agPc = "iface"
    /\ \E r \in reads :
          \E c \in {collectIfaceMetrics(prevIfaces, hasPrevIfaces, r)} :
          /\ ifaceMetrics' = c.metrics
          /\ ifaceOK' = c.ok
          /\ ifaceCall' = IfaceCall(prevIfaces, hasPrevIfaces, r, seenIfaces)
          /\ seenIfaces' = seenIfaces \cup DOMAIN r.Stats
          /\ IF c.ok /\ c.metrics # {}
             THEN \E resp \in resps :
                     netSent' = IF sendNetworkMetricsOK(resp) THEN "ok"
                                ELSE "failed"
             ELSE netSent' = "none"
          /\ IF c.next # EmptyMap
             THEN prevIfaces' = c.next /\ hasPrevIfaces' = TRUE
             ELSE UNCHANGED <<prevIfaces, hasPrevIfaces>>
    /\ metricsCall' = NoMetricsCall
    /\ agPc' = "pace"
    /\ UNCHANGED <<cfgInterval, stopCh, failCount, prevNet, hasPrev, payload,
                   paceVars, outcomes>>

\* the answers to a dispatch, in short: accepted, or rejected
AcceptOrReject == {Response("", 200), Response("", 500)}

IfaceRound == IfaceRoundOn(IfaceReads, AcceptOrReject)

\* the same two steps with fewer answers to the metrics dispatch, and on a
\* host with two interfaces
MetricsRoundBrief == MetricsRoundOn(HealthyReads(NetReadsPaired), AcceptOrReject)
IfaceRoundTwo == IfaceRoundOn(IfaceReadsTwo, AcceptOrReject)

\* readings of the aggregate counters, one of them beyond 2^63
NetReadsWide ==
    NetReads \cup
        {[Err |-> FALSE, Totals |-> NetTotals(Dur(1, 0, 0, 32768), U64(2))]}

\* the metrics step on every aggregate reading
MetricsRoundNet == MetricsRoundOn(HealthyReads(NetReadsWide), AcceptOrReject)

\* every combination of failing cpu, memory, disk and network reads
ProviderReads ==
    {HostRead(c, m, d, n) :
        c \in {PctRead(TRUE, 0), PctRead(FALSE, 10)},
        m \in {PctRead(TRUE, 0), PctRead(FALSE, 20)},
        d \in {PctRead(TRUE, 0), PctRead(FALSE, 30)},
        n \in {r \in NetReads : r.Err \/ r.Totals = NetTotals(U64(1), U64(1))}}

\* the metrics step on a host whose providers fail independently
MetricsRoundProviders == MetricsRoundOn(ProviderReads, AcceptOrReject)

\* time.Since(started) when the round's work is over
ElapsedTimes == {DurZero, Seconds(15), Seconds(70)}

\* where the loop goes with the remaining wait w (lines 266-274)
AfterPace(w) ==
    IF ~DurLess(DurZero, w) THEN "top"
    ELSE IF stopCh = "nil" THEN "sleeping"
    ELSE "waiting"

\* faulty variant of Pace: the time the round took is not subtracted
PaceFullSleep ==
    /\ agPc = "pace"
    /\ \E e \in ElapsedTimes, d \in {nextSleep(cfgInterval, failCount)} :
          /\ sleepFor' = d
          /\ elapsed' = e
          /\ wait' = d
          /\ agPc' = AfterPace(d)
    /\ ifaceMetrics' = {}
    /\ ifaceOK' = FALSE
    /\ netSent' = "none"
    /\ ifaceCall' = NoIfaceCall
    /\ UNCHANGED <<cfgInterval, stopCh, failCount, prevNet, hasPrev, prevIfaces,
                   hasPrevIfaces, seenIfaces, payload, metricsCall, outcomes>>

\* faulty variant of Pace: the loop is left when no wait remains
PaceBreaks ==
    /\ agPc = "pace"
    /\ \E e \in ElapsedTimes, d \in {nextSleep(cfgInterval, failCount)} :
          \E w \in {DurSub(d, e)} :
              /\ sleepFor' = d
              /\ elapsed' = e
              /\ wait' = w
              /\ agPc' = IF ~DurLess(DurZero, w) THEN "stopped" ELSE AfterPace(w)
    /\ ifaceMetrics' = {}
    /\ ifaceOK' = FALSE
    /\ netSent' = "none"
    /\ ifaceCall' = NoIfaceCall
    /\ UNCHANGED <<cfgInterval, stopCh, failCount, prevNet, hasPrev, prevIfaces,
                   hasPrevIfaces, seenIfaces, payload, metricsCall, outcomes>>

\* lines 263-274: how long to wait before the next round; the locals of the
\* per-interface part go out of scope with the iteration
Pace ==
    /\ agPc = "pace"
    /\ \E e \in ElapsedTimes, d \in {nextSleep(cfgInterval, failCount)} :
          \E w \in {DurSub(d, e)} :
              /\ sleepFor' = d
              /\ elapsed' = e
              /\ wait' = w
              /\ agPc' = AfterPace(w)
    /\ ifaceMetrics' = {}
    /\ ifaceOK' = FALSE
    /\ netSent' = "none"
    /\ ifaceCall' = NoIfaceCall
    /\ UNCHANGED <<cfgInterval, stopCh, failCount, prevNet, hasPrev, prevIfaces,
                   hasPrevIfaces, seenIfaces, payload, metricsCall, outcomes>>

\* lines 270, 280: the wait is over
TimerFires ==
    /\ agPc \in {"sleeping", "waiting"}
    /\ agPc' = "top"
    /\ UNCHANGED <<cfgInterval, stopCh, failCount, prevNet, hasPrev, payload,
                   metricsCall, ifVars, paceVars, outcomes>>

\* lines 276-279: the stop signal arrives during the wait
StopWhileWaiting ==
    /\ agPc = "waiting"
    /\ stopCh = "closed"
    /\ agPc' = "stopped"
    /\ UNCHANGED <<cfgInterval, stopCh, failCount, prevNet, hasPrev, payload,
                   metricsCall, ifVars, paceVars, outcomes>>

----------------------------------------------------------------------------
(* main.go: safeDelta and netDelta applied to arbitrary counters *)

\* counters around the values where the conversion to int64 changes sign
U64Samples ==
    {U64(0), U64(50), U64(100), U64(200),
     Dur(65535, 65535, 65535, 32767),     \* 2^63 - 1
     Dur(0, 0, 0, 32768),                 \* 2^63
     Dur(65535, 65535, 65535, 65535)}     \* 2^64 - 1

DeltaInit ==
    /\ sdPrev \in {NetTotals(i, o) : i \in U64Samples, o \in U64Samples}
    /\ sdCurr \in {NetTotals(i, o) : i \in U64Samples, o \in U64Samples}
    /\ sdSafeDone = FALSE
    /\ sdSafe = [value |-> DurZero, ok |-> FALSE]
    /\ sdNetDone = FALSE
    /\ sdNet = <<DurZero, DurZero>>

\* safeDelta(prev.In, curr.In)
CallSafeDelta ==
    /\ ~sdSafeDone
    /\ sdSafeDone' = TRUE
    /\ sdSafe' = safeDelta(sdPrev.In, sdCurr.In)
    /\ UNCHANGED <<sdPrev, sdCurr, sdNetDone, sdNet>>

\* netDelta(prev, curr)
CallNetDelta ==
    /\ ~sdNetDone
    /\ sdNetDone' = TRUE
    /\ sdNet' = netDelta(sdPrev, sdCurr)
    /\ UNCHANGED <<sdPrev, sdCurr, sdSafeDone, sdSafe>>

DeltaIdle ==
    /\ sdPrev = NoTotals
    /\ sdCurr = NoTotals
    /\ sdSafeDone = FALSE
    /\ sdSafe = [value |-> DurZero, ok |-> FALSE]
    /\ sdNetDone = FALSE
    /\ sdNet = <<DurZero, DurZero>>

----------------------------------------------------------------------------
(* the six dispatch functions, each applied to one outcome of client.Do *)

Kinds == {"metrics", "network", "services", "processes", "watchdog", "logs"}

\* what client.Do can give: an error, or a response with any status; a 3xx
\* status reaches the caller when the response carries no Location header
\* (304 never does)
SendResponses ==
    {Response(e, 0) : e \in {"transport", "timeout"}}
        \cup {Response("", st) :
                 st \in {200, 201, 204, 299, 300, 304, 399, 400, 401, 404,
                         500, 503}}

\* part_000 lines 221-234: sendServices fails on an error or a status >= 300
sendServicesOK(resp) == resp.Err = "" /\ resp.StatusCode < 300

\* part_004 lines 122-131: sendProcesses fails on an error or a status >= 400
sendProcessesOK(resp) == resp.Err = "" /\ resp.StatusCode < 400

\* agent_test.go lines 674-683: sendLogs fails on an error or a status >= 400
sendLogsOK(resp) == resp.Err = "" /\ resp.StatusCode < 400

sendOK(kind, resp) ==
    CASE kind = "metrics" -> sendMetricsOK(resp)
      [] kind = "network" -> sendNetworkMetricsOK(resp)
      [] kind = "services" -> sendServicesOK(resp)
      [] kind = "processes" -> sendProcessesOK(resp)
      [] kind = "watchdog" -> sendWatchdogOK(resp)
      [] kind = "logs" -> sendLogsOK(resp)

SendInit ==
    /\ sendKind \in Kinds
    /\ sendResp \in SendResponses
    /\ sendErr = "pending"

\* the call returns nil or an error
CallSend ==
    /\ sendErr = "pending"
    /\ sendErr' = IF sendOK(sendKind, sendResp) THEN "nil" ELSE "error"
    /\ UNCHANGED <<sendKind, sendResp>>

SendIdle ==
    /\ sendKind = "none"
    /\ sendResp = Response("", 0)
    /\ sendErr = "pending"

\* sendProcessesToBackend, sendLogsToBackend and the service-discovery
\* dispatch: each posts its payload and logs the outcome, keeping no state
StatelessKinds == {"processes", "logs", "services"}
SendStateless(resps) ==
    /\ \E kind \in StatelessKinds, resp \in resps :
          /\ sendKind' = kind
          /\ sendResp' = resp
          /\ sendErr' = IF sendOK(kind, resp) THEN "nil" ELSE "error"

----------------------------------------------------------------------------
(* main.go: loadConfig; a string is the sequence of its characters *)

IsSpace(c) == c \in {" ", "\t", "\n"}

\* strings.TrimSpace
RECURSIVE TrimLeft(_)
TrimLeft(str) ==
    IF str # <<>> /\ IsSpace(Head(str)) THEN TrimLeft(Tail(str)) ELSE str
RECURSIVE TrimRightSpace(_)
TrimRightSpace(str) ==
    IF str # <<>> /\ IsSpace(str[Len(str)])
    THEN TrimRightSpace(SubSeq(str, 1, Len(str) - 1))
    ELSE str
TrimSpace(str) == TrimRightSpace(TrimLeft(str))

\* strings.TrimRight(str, "/")
RECURSIVE TrimRight(_)
TrimRight(str) ==
    IF str # <<>> /\ str[Len(str)] = "/"
    THEN TrimRight(SubSeq(str, 1, Len(str) - 1))
    ELSE str

\* lines 575-582
firstNonEmpty(a, b) ==
    IF TrimSpace(a) # <<>> THEN a
    ELSE IF TrimSpace(b) # <<>> THEN b
    ELSE <<>>

\* strconv.Atoi: an optional sign and at least one decimal digit; the value
\* is held in limbs (the strings used here are too short to leave int range)
Digits == <<"0", "1", "2", "3", "4", "5", "6", "7", "8", "9">>
IsDigit(c) == \E i \in 1..Len(Digits) : Digits[i] = c
DigitVal(c) == (CHOOSE i \in 1..Len(Digits) : Digits[i] = c) - 1
RECURSIVE ParseDigits(_, _)
ParseDigits(str, acc) ==
    IF str = <<>> THEN acc
    ELSE ParseDigits(Tail(str),
                     Wrap64(<<acc[1] * 10 + DigitVal(Head(str)), acc[2] * 10,
                              acc[3] * 10, acc[4] * 10>>))
Atoi(str) ==
    LET signed == str # <<>> /\ Head(str) \in {"+", "-"}
        body == IF signed THEN Tail(str) ELSE str
    IN  IF body = <<>> \/ \E i \in 1..Len(body) : ~IsDigit(body[i])
        THEN [err |-> TRUE, n |-> DurZero]
        ELSE LET v == ParseDigits(body, DurZero)
             IN  [err |-> FALSE,
                  n |-> IF Head(str) = "-" THEN DurSub(DurZero, v) ELSE v]

\* n > 0 for an int held in limbs
IntPositive(n) == ~DurNeg(n) /\ n # DurZero

\* time.Duration(n) * time.Second, wrapping: 1000000000 = 31250 * 32000
SecondsOf(n) == DurMul(DurMul(n, 31250), 32000)

Config(url, token, interval, timeout) ==
    [BaseURL |-> url, Token |-> token, Interval |-> interval,
     Timeout |-> timeout]
ConfigError == [err |-> TRUE, cfg |-> Config(<<>>, <<>>, DurZero, DurZero)]

\* the arguments after flag parsing (flagInterval is 0 when the flag is not
\* given) and the three environment variables ("" when unset)
Args(ok, fu, ft, fi, eu, et, ei) ==
    [parseOK |-> ok, flagURL |-> fu, flagToken |-> ft, flagInterval |-> fi,
     envURL |-> eu, envToken |-> et, envInterval |-> ei]

\* lines 304-313: the number of seconds, or an error
intervalSeconds(a) ==
    IF IntPositive(a.flagInterval) THEN [err |-> FALSE, n |-> a.flagInterval]
    ELSE LET raw == TrimSpace(a.envInterval)
             parsed == Atoi(raw)
         IN  IF raw = <<>> THEN [err |-> FALSE, n |-> U64(10)]
             ELSE IF parsed.err \/ ~IntPositive(parsed.n)
                  THEN [err |-> TRUE, n |-> DurZero]
                  ELSE [err |-> FALSE, n |-> parsed.n]

\* lines 285-321
loadConfig(a) ==
    LET baseURL == TrimSpace(firstNonEmpty(a.flagURL, a.envURL))
        token == TrimSpace(firstNonEmpty(a.flagToken, a.envToken))
        secs == intervalSeconds(a)
    IN  IF ~a.parseOK THEN ConfigError
        ELSE IF baseURL = <<>> THEN ConfigError
        ELSE IF token = <<>> THEN ConfigError
        ELSE IF secs.err THEN ConfigError
        ELSE [err |-> FALSE,
              cfg |-> Config(TrimRight(baseURL), token, SecondsOf(secs.n),
                             Seconds(10))]

FlagURLs == {<<>>, <<" ">>, <<"h">>, <<"h", "/">>}
EnvURLs == {<<>>, <<"/">>, <<" ", "e", "/", "/", " ">>}
FlagTokens == {<<>>, <<" ">>, <<"t">>}
EnvTokens == {<<>>, <<"k", " ">>}
\* -interval: not given, -5, 30, 9223372037 and 2^55
FlagIntervals ==
    {DurZero, DurSub(DurZero, U64(5)), U64(30), Dur(32005, 9665, 2, 0),
     Dur(0, 0, 0, 128)}
EnvIntervals ==
    {<<>>, <<" ">>, <<"4", "5">>, <<" ", "5", " ">>, <<"0">>, <<"-", "5">>,
     <<"a">>, <<"1", "a">>, <<"+", "7">>}

ConfigArgs ==
    {Args(ok, fu, ft, fi, eu, et, ei) :
        ok \in BOOLEAN, fu \in FlagURLs, ft \in FlagTokens,
        fi \in FlagIntervals, eu \in EnvURLs, et \in EnvTokens,
        ei \in EnvIntervals}

ConfigInit ==
    /\ lcArgs \in ConfigArgs
    /\ lcDone = FALSE
    /\ lcOut = ConfigError

CallLoadConfig ==
    /\ ~lcDone
    /\ lcDone' = TRUE
    /\ lcOut' = loadConfig(lcArgs)
    /\ UNCHANGED lcArgs

ConfigIdle ==
    /\ lcArgs = Args(TRUE, <<>>, <<>>, DurZero, <<>>, <<>>, <<>>)
    /\ lcDone = FALSE
    /\ lcOut = ConfigError

----------------------------------------------------------------------------
(* discovery: resolveServiceName *)

\* part_000 lines 35-68: wellKnownPorts, as <<port, label>> pairs
PortLabels ==
    {<<21, "FTP">>, <<22, "SSH">>, <<25, "SMTP">>, <<53, "DNS">>,
     <<80, "HTTP">>, <<110, "POP3">>, <<143, "IMAP">>, <<443, "HTTPS">>,
     <<465, "SMTPS">>, <<587, "SMTP Submission">>, <<993, "IMAPS">>,
     <<995, "POP3S">>, <<1433, "MSSQL">>, <<1521, "Oracle DB">>,
     <<2049, "NFS">>, <<3000, "Dev Server">>, <<3306, "MySQL">>,
     <<3389, "RDP">>, <<5432, "PostgreSQL">>, <<5672, "RabbitMQ">>,
     <<5900, "VNC">>, <<6379, "Redis">>, <<6443, "Kubernetes API">>,
     <<8080, "HTTP Alt">>, <<8443, "HTTPS Alt">>, <<8888, "HTTP Alt">>,
     <<9090, "Prometheus">>, <<9200, "Elasticsearch">>,
     <<9300, "Elasticsearch Transport">>, <<11211, "Memcached">>,
     <<15672, "RabbitMQ Management">>, <<27017, "MongoDB">>}
wellKnownPorts == [p \in {e[1] : e \in PortLabels} |->
                      (CHOOSE e \in PortLabels : e[1] = p)[2]]

\* part_000 lines 71-96: processNameOverrides, as <<name, label>> pairs
NameLabels ==
    {<<"postgres", "PostgreSQL">>, <<"mysqld", "MySQL">>,
     <<"mariadbd", "MariaDB">>, <<"redis-server", "Redis">>,
     <<"mongod", "MongoDB">>, <<"nginx", "Nginx">>, <<"apache2", "Apache">>,
     <<"httpd", "Apache">>, <<"caddy", "Caddy">>, <<"haproxy", "HAProxy">>,
     <<"sshd", "SSH">>, <<"dockerd", "Docker">>,
     <<"containerd", "Containerd">>, <<"kubelet", "Kubelet">>,
     <<"etcd", "etcd">>, <<"java", "Java App">>, <<"node", "Node.js">>,
     <<"python3", "Python App">>, <<"python", "Python App">>,
     <<"php-fpm", "PHP-FPM">>, <<"dotnet", ".NET App">>,
     <<"rabbitmq-server", "RabbitMQ">>, <<"memcached", "Memcached">>,
     <<"prometheus", "Prometheus">>, <<"grafana-server", "Grafana">>,
     <<"minio", "MinIO">>}
processNameOverrides == [n \in {e[1] : e \in NameLabels} |->
                            (CHOOSE e \in NameLabels : e[1] = n)[2]]

\* strings.ToLower on the process names used here: the names that hold an
\* upper-case letter, each with its lower-case form; any other is unchanged
LowerForms ==
    {<<"Nginx", "nginx">>, <<"NGINX", "nginx">>, <<"MyApp", "myapp">>,
     <<"Redis-Server", "redis-server">>, <<"SSHD", "sshd">>}
ToLower(name) ==
    IF \E e \in LowerForms : e[1] = name
    THEN (CHOOSE e \in LowerForms : e[1] = name)[2]
    ELSE name

\* fmt.Sprintf("Port %d", port)
PortName(port) == "Port " \o ToString(port)

\* faulty variant of resolveServiceName: the port table is consulted first
resolveServiceNamePortFirst(port, processName) ==
    IF port \in DOMAIN wellKnownPorts THEN wellKnownPorts[port]
    ELSE IF processName # "" /\ ToLower(processName) \in DOMAIN processNameOverrides
    THEN processNameOverrides[ToLower(processName)]
    ELSE IF processName # "" THEN processName
    ELSE PortName(port)

\* part_000 lines 174-195
resolveServiceName(port, processName) ==
    IF processName # "" /\ ToLower(processName) \in DOMAIN processNameOverrides
    THEN processNameOverrides[ToLower(processName)]
    ELSE IF port \in DOMAIN wellKnownPorts THEN wellKnownPorts[port]
    ELSE IF processName # "" THEN processName
    ELSE PortName(port)

ResolvePorts ==
    {0, 22, 80, 443, 3306, 5432, 6379, 8080, 9999, 27017, 54321, 65535}
ResolveNames ==
    {"", "nginx", "Nginx", "NGINX", "postgres", "myapp", "MyApp", "sshd",
     "SSHD", "Redis-Server", "node", "ssh"}

ResolveInit ==
    /\ rsPort \in ResolvePorts
    /\ rsProcess \in ResolveNames
    /\ rsDone = FALSE
    /\ rsName = ""

CallResolve ==
    /\ ~rsDone
    /\ rsDone' = TRUE
    /\ rsName' = resolveServiceName(rsPort, rsProcess)
    /\ UNCHANGED <<rsPort, rsProcess>>

ResolveIdle ==
    /\ rsPort = 0
    /\ rsProcess = ""
    /\ rsDone = FALSE
    /\ rsName = ""

FnIdle == SendIdle /\ ConfigIdle /\ ResolveIdle

----------------------------------------------------------------------------
(* watchdog.go: samePIDs applied to arbitrary slices *)

\* slices of at most MaxLen PIDs, duplicates allowed; nil is the empty slice
PidLists == UNION {[1..n -> 1..MaxPid] : n \in 0..MaxLen}

SpInit ==
    /\ spA \in PidLists
    /\ spB \in PidLists
    /\ spDone = FALSE
    /\ spOut = FALSE

CallSamePIDs ==
    /\ ~spDone
    /\ spDone' = TRUE
    /\ spOut' = samePIDs(spA, spB)
    /\ UNCHANGED <<spA, spB>>

SpIdle == spA = <<>> /\ spB = <<>> /\ spDone = FALSE /\ spOut = FALSE

----------------------------------------------------------------------------
(* watchdog.go: one round of sendWatchdogToBackend, per thread *)

AllRunning(es) ==
    \A i \in 1..Len(es) : es[i].Status = "running" /\ es[i].RestartCount = 0

PidSet(s) == {s[i] : i \in 1..Len(s)}
SameProcessSet(a, b) ==
    /\ DOMAIN a = DOMAIN b
    /\ \A n \in DOMAIN a : PidSet(a[n]) = PidSet(b[n])
SnapshotPids(prev) == [n \in DOMAIN prev |-> prev[n].PIDs]

\* what is remembered of a finished successful round when the next one starts
RoundSummary(t) ==
    IF pc[t] = "done" /\ ~err[t]
    THEN [valid |-> TRUE, current |-> current[t],
          snapshot |-> previous,
          allRunning |-> AllRunning(entries[t]),
          fromEmpty |-> prevBefore[t] = EmptyMap,
          fromSame |-> SameProcessSet(SnapshotPids(prevBefore[t]), current[t])]
    ELSE lastOK

ResetLocals(t) ==
    /\ now' = [now EXCEPT ![t] = 0]
    /\ prevBefore' = [prevBefore EXCEPT ![t] = EmptyMap]
    /\ diffs' = [diffs EXCEPT ![t] = {}]
    /\ entries' = [entries EXCEPT ![t] = <<>>]
    /\ sent' = [sent EXCEPT ![t] = "none"]

\* lines 157, 50-66: the listing succeeds; current is built outside the lock
ListProcesses(t, listings) ==
    /\ pc[t] \in {"idle", "done"}
    /\ \E ps \in listings :
          /\ procs' = [procs EXCEPT ![t] = ps]
          /\ current' = [current EXCEPT ![t] = BuildCurrent(ps)]
    /\ lastOK' = RoundSummary(t)
    /\ err' = [err EXCEPT ![t] = FALSE]
    /\ ResetLocals(t)
    /\ pc' = [pc EXCEPT ![t] = "listed"]
    /\ UNCHANGED <<previous, mu, clock>>

\* faulty variant of ListFails: the error path stores the empty listing
ListFailsClears(t) ==
    /\ pc[t] \in {"idle", "done"}
    /\ lastOK' = RoundSummary(t)
    /\ procs' = [procs EXCEPT ![t] = <<>>]
    /\ current' = [current EXCEPT ![t] = EmptyMap]
    /\ err' = [err EXCEPT ![t] = TRUE]
    /\ ResetLocals(t)
    /\ pc' = [pc EXCEPT ![t] = "done"]
    /\ previous' = EmptyMap
    /\ UNCHANGED <<mu, clock>>

\* lines 53-56, 157-161: the listing fails; the caller logs and returns
ListFails(t) ==
    /\ pc[t] \in {"idle", "done"}
    /\ lastOK' = RoundSummary(t)
    /\ procs' = [procs EXCEPT ![t] = <<>>]
    /\ current' = [current EXCEPT ![t] = EmptyMap]
    /\ err' = [err EXCEPT ![t] = TRUE]
    /\ ResetLocals(t)
    /\ pc' = [pc EXCEPT ![t] = "done"]
    /\ UNCHANGED <<previous, mu, clock>>

\* faulty variant of Lock: the call does not wait for the mutex
LockNoWait(t) ==
    /\ pc[t] = "listed"
    /\ mu' = t
    /\ pc' = [pc EXCEPT ![t] = "locked"]
    /\ UNCHANGED <<previous, clock, procs, current, now, prevBefore, diffs,
                   entries, err, sent, lastOK>>

\* line 68: wdState.mu.Lock()
Lock(t) ==
    /\ pc[t] = "listed"
    /\ mu = NoThread
    /\ mu' = t
    /\ pc' = [pc EXCEPT ![t] = "locked"]
    /\ UNCHANGED <<previous, clock, procs, current, now, prevBefore, diffs,
                   entries, err, sent, lastOK>>

\* lines 71-115: read the clock, range over previous and current
Diff(t) ==
    /\ pc[t] = "locked"
    /\ \E n \in clock..MaxTime :
          /\ clock' = n
          /\ now' = [now EXCEPT ![t] = n]
          /\ diffs' = [diffs EXCEPT ![t] = DiffEntries(previous, current[t], n)]
    /\ prevBefore' = [prevBefore EXCEPT ![t] = previous]
    /\ pc' = [pc EXCEPT ![t] = "diffed"]
    /\ UNCHANGED <<previous, mu, procs, current, entries, err, sent, lastOK>>

\* faulty variant of Replace: names missing from the listing stay stored
ReplaceKeepsMissing(t) ==
    /\ pc[t] = "diffed"
    /\ previous' = [n \in DOMAIN previous \cup DOMAIN current[t] |->
                        IF n \in DOMAIN current[t]
                        THEN NewSnapshot(current[t], now[t])[n]
                        ELSE previous[n]]
    /\ pc' = [pc EXCEPT ![t] = "replaced"]
    /\ UNCHANGED <<mu, clock, procs, current, now, prevBefore, diffs, entries,
                   err, sent, lastOK>>

\* lines 117-124: replace the stored snapshot
Replace(t) ==
    /\ pc[t] = "diffed"
    /\ previous' = NewSnapshot(current[t], now[t])
    /\ pc' = [pc EXCEPT ![t] = "replaced"]
    /\ UNCHANGED <<mu, clock, procs, current, now, prevBefore, diffs, entries,
                   err, sent, lastOK>>

\* lines 126-136, 69: sort, truncate, return (deferred Unlock)
SortAndReturn(t) ==
    /\ pc[t] = "replaced"
    /\ entries' = [entries EXCEPT ![t] = Truncate(SortByName(diffs[t]))]
    /\ mu' = NoThread
    /\ pc' = [pc EXCEPT ![t] = "collected"]
    /\ UNCHANGED <<previous, clock, procs, current, now, prevBefore, diffs, err,
                   sent, lastOK>>

\* lines 163-167: nothing to send
SkipEmpty(t) ==
    /\ pc[t] = "collected"
    /\ Len(entries[t]) = 0
    /\ pc' = [pc EXCEPT ![t] = "done"]
    /\ UNCHANGED <<previous, mu, clock, procs, current, now, prevBefore, diffs,
                   entries, err, sent, lastOK>>

\* faulty variant of Dispatch: a failed post puts the old snapshot back
DispatchRestores(t) ==
    /\ pc[t] = "collected"
    /\ Len(entries[t]) # 0
    /\ \E resp \in Responses :
          /\ sent' = [sent EXCEPT ![t] = IF sendWatchdogOK(resp) THEN "ok" ELSE "failed"]
          /\ previous' = IF sendWatchdogOK(resp) THEN previous ELSE prevBefore[t]
    /\ pc' = [pc EXCEPT ![t] = "done"]
    /\ UNCHANGED <<mu, clock, procs, current, now, prevBefore, diffs,
                   entries, err, lastOK>>

\* lines 169-190: build the payload and post it
Dispatch(t) ==
    /\ pc[t] = "collected"
    /\ Len(entries[t]) # 0
    /\ \E resp \in Responses :
          sent' = [sent EXCEPT ![t] = IF sendWatchdogOK(resp) THEN "ok" ELSE "failed"]
    /\ pc' = [pc EXCEPT ![t] = "done"]
    /\ UNCHANGED <<previous, mu, clock, procs, current, now, prevBefore, diffs,
                   entries, err, lastOK>>

\* lines 118-124 one statement at a time, as an overlapping call would see
\* them: the stored map is replaced by an empty one and then filled
StoreTarget(t) == NewSnapshot(current[t], now[t])
PendingNames(t) ==
    {n \in DOMAIN current[t] :
        n \notin DOMAIN previous \/ previous[n] # StoreTarget(t)[n]}

\* line 118: wdState.previous = make(...)
ReplaceMake(t) ==
    /\ pc[t] = "diffed"
    /\ previous' = EmptyMap
    /\ pc' = [pc EXCEPT ![t] = "made"]
    /\ UNCHANGED <<mu, clock, procs, current, now, prevBefore, diffs, entries,
                   err, sent, lastOK>>

\* lines 119-124: one iteration of the range over current
ReplaceStore(t) ==
    /\ pc[t] = "made"
    /\ \E n \in PendingNames(t) :
          previous' = [m \in DOMAIN previous \cup {n} |->
                          IF m = n THEN StoreTarget(t)[n] ELSE previous[m]]
    /\ UNCHANGED <<pc, mu, clock, procs, current, now, prevBefore, diffs,
                   entries, err, sent, lastOK>>

\* the range over current is exhausted
ReplaceDone(t) ==
    /\ pc[t] = "made"
    /\ PendingNames(t) = {}
    /\ pc' = [pc EXCEPT ![t] = "replaced"]
    /\ UNCHANGED <<previous, mu, clock, procs, current, now, prevBefore, diffs,
                   entries, err, sent, lastOK>>

WdInit(threads) ==
    /\ previous = EmptyMap
    /\ mu = NoThread
    /\ clock = 0
    /\ pc = [t \in threads |-> "idle"]
    /\ procs = [t \in threads |-> <<>>]
    /\ current = [t \in threads |-> EmptyMap]
    /\ now = [t \in threads |-> 0]
    /\ prevBefore = [t \in threads |-> EmptyMap]
    /\ diffs = [t \in threads |-> {}]
    /\ entries = [t \in threads |-> <<>>]
    /\ err = [t \in threads |-> FALSE]
    /\ sent = [t \in threads |-> "none"]
    /\ lastOK = NoRound

WdStep(t) ==
    \/ Lock(t)
    \/ Diff(t)
    \/ Replace(t)
    \/ SortAndReturn(t)
    \/ SkipEmpty(t)
    \/ Dispatch(t)

\* the same round with the replacement statement by statement
WdStepFine(t) ==
    \/ Lock(t)
    \/ Diff(t)
    \/ ReplaceMake(t)
    \/ ReplaceStore(t)
    \/ ReplaceDone(t)
    \/ SortAndReturn(t)
    \/ SkipEmpty(t)
    \/ Dispatch(t)

----------------------------------------------------------------------------
(* Specifications *)

\* rounds one after the other, small process tables
Init == WdInit({1}) /\ SpIdle /\ NsIdle /\ AgIdle /\ DeltaIdle /\ FnIdle
Next ==
    /\ \/ ListProcesses(1, VarListings)
       \/ ListFails(1)
       \/ WdStep(1)
    /\ UNCHANGED <<spVars, nsVars, agVars, sdVars, fnVars>>
Spec == Init /\ [][Next]_vars

\* rounds one after the other, process tables of more than MaxEntries names
InitCap == WdInit({1}) /\ SpIdle /\ NsIdle /\ AgIdle /\ DeltaIdle /\ FnIdle
NextCap ==
    /\ \/ ListProcesses(1, CapListings)
       \/ ListFails(1)
       \/ WdStep(1)
    /\ UNCHANGED <<spVars, nsVars, agVars, sdVars, fnVars>>
SpecCap == InitCap /\ [][NextCap]_vars

\* two overlapping rounds
Threads == {1, 2}
InitConc == WdInit(Threads) /\ SpIdle /\ NsIdle /\ AgIdle /\ DeltaIdle /\ FnIdle
NextConc ==
    /\ \E t \in Threads :
          \/ ListProcesses(t, ConcListings)
          \/ ListFails(t)
          \/ WdStep(t)
    /\ UNCHANGED <<spVars, nsVars, agVars, sdVars, fnVars>>
SpecConc == InitConc /\ [][NextConc]_vars

\* samePIDs on its own
InitSamePIDs == WdInit({}) /\ SpInit /\ NsIdle /\ AgIdle /\ DeltaIdle /\ FnIdle
NextSamePIDs == CallSamePIDs /\ UNCHANGED <<wdVars, nsVars, agVars, sdVars, fnVars>>
SpecSamePIDs == InitSamePIDs /\ [][NextSamePIDs]_vars

\* nextSleep on its own
InitNextSleep == WdInit({}) /\ SpIdle /\ NsInit /\ AgIdle /\ DeltaIdle /\ FnIdle
NextNextSleep == CallNextSleep /\ UNCHANGED <<wdVars, spVars, agVars, sdVars, fnVars>>
SpecNextSleep == InitNextSleep /\ [][NextNextSleep]_vars

\* the metrics loop
InitAgent == WdInit({}) /\ SpIdle /\ NsIdle /\ AgInit /\ DeltaIdle /\ FnIdle
NextAgent ==
    /\ \/ CloseStop
       \/ LoopTopStops
       \/ MetricsRound
       \/ IfaceRound
       \/ Pace
       \/ TimerFires
       \/ StopWhileWaiting
    /\ UNCHANGED <<wdVars, spVars, nsVars, sdVars, fnVars>>
SpecAgent == InitAgent /\ [][NextAgent]_vars

\* the metrics loop as a goroutine that is always scheduled again: every
\* step of the loop returns (reads return, a dispatch is bounded by
\* cfg.Timeout, the timer fires), so the loop is never stuck in a step it
\* could take; program.Stop may never be called
LoopStep ==
    /\ \/ LoopTopStops
       \/ MetricsRoundBrief
       \/ IfaceRound
       \/ Pace
       \/ TimerFires
       \/ StopWhileWaiting
    /\ UNCHANGED <<wdVars, spVars, nsVars, sdVars, fnVars>>
NextAgentFair ==
    \/ CloseStop /\ UNCHANGED <<wdVars, spVars, nsVars, sdVars, fnVars>>
    \/ LoopStep
SpecAgentFair == InitAgent /\ [][NextAgentFair]_vars /\ WF_vars(LoopStep)

\* the metrics loop on a host with two interfaces
NextIface ==
    /\ \/ CloseStop
       \/ LoopTopStops
       \/ MetricsRoundBrief
       \/ IfaceRoundTwo
       \/ Pace
       \/ TimerFires
       \/ StopWhileWaiting
    /\ UNCHANGED <<wdVars, spVars, nsVars, sdVars, fnVars>>
SpecIface == InitAgent /\ [][NextIface]_vars

\* the metrics loop on every aggregate reading
NextNet ==
    /\ \/ CloseStop
       \/ LoopTopStops
       \/ MetricsRoundNet
       \/ IfaceRound
       \/ Pace
       \/ TimerFires
       \/ StopWhileWaiting
    /\ UNCHANGED <<wdVars, spVars, nsVars, sdVars, fnVars>>
SpecNet == InitAgent /\ [][NextNet]_vars

\* the metrics loop on a host whose providers fail independently
NextProviders ==
    /\ \/ CloseStop
       \/ LoopTopStops
       \/ MetricsRoundProviders
       \/ IfaceRound
       \/ Pace
       \/ TimerFires
       \/ StopWhileWaiting
    /\ UNCHANGED <<wdVars, spVars, nsVars, sdVars, fnVars>>
SpecProviders == InitAgent /\ [][NextProviders]_vars

\* the metrics loop of run mode (nil stop channel, no way out of the loop)
\* next to watchdog rounds that run on their own schedule
InitKinds ==
    /\ WdInit({1}) /\ SpIdle /\ NsIdle /\ DeltaIdle /\ FnIdle
    /\ AgInitWith({Seconds(10)}, {"nil"})
NextKinds ==
    \/ /\ \/ ListProcesses(1, {<<Proc(1, 1)>>})
          \/ WdStep(1)
       /\ UNCHANGED <<spVars, nsVars, agVars, sdVars, fnVars>>
    \/ /\ \/ MetricsRoundOn(HealthyReads({[Err |-> TRUE, Totals |-> NoTotals]}),
                           AcceptOrReject)
          \/ IfaceRoundOn(IfaceReads \ {IfaceError}, {Response("", 500)})
          \/ Pace
          \/ TimerFires
       /\ UNCHANGED <<wdVars, spVars, nsVars, sdVars, fnVars>>
    \/ /\ SendStateless({Response("", 503)})
       /\ UNCHANGED <<wdVars, spVars, nsVars, agVars, sdVars, lcVars, rsVars>>
SpecKinds == InitKinds /\ [][NextKinds]_vars

\* overlapping rounds, the snapshot replaced one map store at a time
LockListings == {<<Proc(1, 1)>>, <<Proc(1, 1), Proc(2, 2)>>}
InitLock == WdInit(Threads) /\ SpIdle /\ NsIdle /\ AgIdle /\ DeltaIdle /\ FnIdle
NextLock ==
    /\ \E t \in Threads :
          \/ ListProcesses(t, LockListings)
          \/ WdStepFine(t)
    /\ UNCHANGED <<spVars, nsVars, agVars, sdVars, fnVars>>
SpecLock == InitLock /\ [][NextLock]_vars

\* calls one after the other, the last of them made by caller 2 so that the
\* locals of the call before it, made by caller 1, are still there to compare
RoundListings ==
    {<<>>, <<Proc(1, 1)>>, <<Proc(2, 1)>>, <<Proc(1, 1), Proc(2, 2)>>}
InitNextRound ==
    WdInit(Threads) /\ SpIdle /\ NsIdle /\ AgIdle /\ DeltaIdle /\ FnIdle
NextNextRound ==
    /\ \/ /\ pc[2] = "idle"
          /\ \/ ListProcesses(1, RoundListings)
             \/ ListFails(1)
             \/ WdStep(1)
       \/ /\ pc[1] = "done"
          /\ pc[2] = "idle"
          /\ ListProcesses(2, RoundListings)
       \/ WdStep(2)
    /\ UNCHANGED <<spVars, nsVars, agVars, sdVars, fnVars>>
SpecNextRound == InitNextRound /\ [][NextNextRound]_vars

\* a program whose loop has not been launched yet: a zero program has no
\* channel, the one main builds has one (line 126)
NoLoop(chans) ==
    /\ agPc = "stopped"
    /\ cfgInterval = Seconds(10)
    /\ stopCh \in chans
    /\ failCount = 0
    /\ prevNet = NoTotals
    /\ hasPrev = FALSE
    /\ prevIfaces = EmptyMap
    /\ hasPrevIfaces = FALSE
    /\ payload = NoPayload
    /\ metricsCall = NoMetricsCall
    /\ ifaceMetrics = {}
    /\ ifaceOK = FALSE
    /\ netSent = "none"
    /\ ifaceCall = NoIfaceCall
    /\ seenIfaces = {}
    /\ sleepFor = DurZero
    /\ elapsed = DurZero
    /\ wait = DurZero
    /\ outcomes = <<>>

\* the service manager starting and stopping a program, or main running the
\* loop itself with a nil channel (lines 105, 122)
InitProgram ==
    /\ WdInit({}) /\ SpIdle /\ NsIdle /\ DeltaIdle /\ FnIdle
    /\ \/ NoLoop({"nil", "open"})
       \/ AgInitWith({Seconds(10)}, {"nil"})
NextProgram ==
    /\ \/ Start
       \/ CloseStop
       \/ LoopTopStops
       \/ MetricsRoundOn(HealthyReads({[Err |-> TRUE, Totals |-> NoTotals]}),
                         AcceptOrReject)
       \/ IfaceRoundOn({IfaceError}, AcceptOrReject)
       \/ Pace
       \/ TimerFires
       \/ StopWhileWaiting
    /\ UNCHANGED <<wdVars, spVars, nsVars, sdVars, fnVars>>
SpecProgram == InitProgram /\ [][NextProgram]_vars

\* the dispatch functions on their own
InitSend ==
    /\ WdInit({}) /\ SpIdle /\ NsIdle /\ AgIdle /\ DeltaIdle
    /\ SendInit /\ ConfigIdle /\ ResolveIdle
NextSend ==
    /\ CallSend
    /\ UNCHANGED <<wdVars, spVars, nsVars, agVars, sdVars, lcVars, rsVars>>

\* loadConfig on its own
InitConfig ==
    /\ WdInit({}) /\ SpIdle /\ NsIdle /\ AgIdle /\ DeltaIdle
    /\ SendIdle /\ ConfigInit /\ ResolveIdle
NextConfig ==
    /\ CallLoadConfig
    /\ UNCHANGED <<wdVars, spVars, nsVars, agVars, sdVars, dsVars, rsVars>>
SpecConfig == InitConfig /\ [][NextConfig]_vars

\* main with the run command: loadConfig has returned without error and
\* runAgent starts with its Config and a nil stop channel (lines 100-106)
RunArgs ==
    {Args(TRUE, <<"h">>, <<"t">>, fi, <<>>, <<>>, ei) :
        fi \in {DurZero, U64(30), Dur(32005, 9665, 2, 0), Dur(0, 0, 0, 128)},
        ei \in {<<>>, <<"4", "5">>}}
InitRun ==
    /\ WdInit({}) /\ SpIdle /\ NsIdle /\ DeltaIdle /\ SendIdle /\ ResolveIdle
    /\ lcArgs \in RunArgs
    /\ lcDone = TRUE
    /\ lcOut = loadConfig(lcArgs)
    /\ ~lcOut.err
    /\ AgInitWith({lcOut.cfg.Interval}, {"nil"})
NextRun ==
    /\ \/ MetricsRoundOn(HealthyReads({[Err |-> TRUE, Totals |-> NoTotals]}),
                         AcceptOrReject)
       \/ IfaceRoundOn({IfaceError}, AcceptOrReject)
       \/ Pace
       \/ TimerFires
    /\ UNCHANGED <<wdVars, spVars, nsVars, sdVars, fnVars>>
SpecRun == InitRun /\ [][NextRun]_vars

\* resolveServiceName on its own
InitResolve ==
    /\ WdInit({}) /\ SpIdle /\ NsIdle /\ AgIdle /\ DeltaIdle
    /\ SendIdle /\ ConfigIdle /\ ResolveInit
NextResolve ==
    /\ CallResolve
    /\ UNCHANGED <<wdVars, spVars, nsVars, agVars, sdVars, dsVars, lcVars>>
SpecResolve == InitResolve /\ [][NextResolve]_vars
SpecSend == InitSend /\ [][NextSend]_vars

\* safeDelta and netDelta on their own
InitDelta == WdInit({}) /\ SpIdle /\ NsIdle /\ AgIdle /\ DeltaInit /\ FnIdle
NextDelta ==
    /\ CallSafeDelta \/ CallNetDelta
    /\ UNCHANGED <<wdVars, spVars, nsVars, agVars, fnVars>>
SpecDelta == InitDelta /\ [][NextDelta]_vars

----------------------------------------------------------------------------
(* Properties of the watchdog round *)

\* thread t holds the result of a successful collectWatchdog call
Collected(t) == pc[t] \in {"collected", "done"} /\ ~err[t]
\* thread t has finished a round in which collectWatchdog succeeded
Finished(t) == pc[t] = "done" /\ ~err[t]
UnionNames(t) == DOMAIN prevBefore[t] \cup DOMAIN current[t]
EntryNames(es) == {es[i].Name : i \in 1..Len(es)}
Statuses == {"running", "restarted", "crashed"}

\* C1: a round whose previous snapshot is empty and that lists N >= 1 named
\* processes returns N entries, all running with restart_count 0, and
\* nothing is dispatched for that round.
C1_BaselineSuppressed ==
    \A t \in DOMAIN pc :
        (Finished(t) /\ prevBefore[t] = EmptyMap /\ current[t] # EmptyMap) =>
            /\ Len(entries[t]) = Cardinality(DOMAIN current[t])
            /\ AllRunning(entries[t])
            /\ sent[t] = "none"

\* C2 as stated: every name of previous \cup current appears in exactly one
\* returned entry with one of the three statuses, and no other name appears.
C2_Exhaustive ==
    \A t \in DOMAIN pc :
        Collected(t) =>
            /\ EntryNames(entries[t]) = UnionNames(t)
            /\ Len(entries[t]) = Cardinality(UnionNames(t))
            /\ \A i \in 1..Len(entries[t]) : entries[t][i].Status \in Statuses

\* C2 amended: the returned entries name the min(|U|, 100) smallest names of
\* U = previous \cup current, each exactly once and with one of the three
\* statuses; no entry names a process outside U; when U has at most 100
\* names every name of U is returned.
C2_ExhaustiveUpToCap ==
    \A t \in DOMAIN pc :
        Collected(t) =>
            LET U == UnionNames(t)
                E == EntryNames(entries[t])
            IN  /\ E \subseteq U
                /\ Len(entries[t]) = Cardinality(E)
                /\ \A i \in 1..Len(entries[t]) : entries[t][i].Status \in Statuses
                /\ Cardinality(U) <= MaxEntries => E = U
                /\ Cardinality(U) > MaxEntries =>
                      /\ Cardinality(E) = MaxEntries
                      /\ \A n \in E : \A m \in U \ E : n < m

C2_Witness ==
    \E t \in DOMAIN pc :
        /\ Finished(t)
        /\ Cardinality(UnionNames(t)) > MaxEntries
        /\ \E i \in 1..Len(entries[t]) : entries[t][i].Status = "crashed"
        /\ \E i \in 1..Len(entries[t]) : entries[t][i].Status = "running"

\* the entry that the case table of the diff gives for e.Name
C3_EntryOf(e, prev, cur, t) ==
    LET n == e.Name IN
    /\ (n \in DOMAIN prev /\ n \notin DOMAIN cur) =>
          e = Entry(n, "crashed", 0, FormatRFC3339(prev[n].LastSeenAt), <<>>)
    /\ (n \in DOMAIN prev /\ n \in DOMAIN cur
            /\ PidSet(prev[n].PIDs) = PidSet(cur[n])) =>
          e = Entry(n, "running", 0, FormatRFC3339(t), cur[n])
    /\ (n \in DOMAIN prev /\ n \in DOMAIN cur
            /\ PidSet(prev[n].PIDs) # PidSet(cur[n])) =>
          e = Entry(n, "restarted", 1, FormatRFC3339(t), cur[n])
    /\ (n \notin DOMAIN prev /\ n \in DOMAIN cur) =>
          e = Entry(n, "running", 0, FormatRFC3339(t), cur[n])
    /\ (e.RestartCount = 1) <=> (e.Status = "restarted")

\* C3: each returned entry is determined by where its name occurs:
\* previous only -> crashed, 0, no pids, last_seen_at of the stored LastSeenAt;
\* both, equal PID sets -> running, 0, now, current pids;
\* both, different PID sets -> restarted, 1, now, current pids;
\* current only -> running, 0 (now, current pids);
\* and restart_count = 1 exactly for restarted entries.
C3_Classification ==
    \A t \in DOMAIN pc :
        Collected(t) =>
            \A i \in 1..Len(entries[t]) :
                C3_EntryOf(entries[t][i], prevBefore[t], current[t], now[t])

C3_Witness ==
    \E t \in DOMAIN pc :
        /\ Finished(t)
        /\ \E i, j \in 1..Len(entries[t]) :
              /\ entries[t][i].Status = "restarted"
              /\ Len(entries[t][i].PIDs) = Len(prevBefore[t][entries[t][i].Name].PIDs)
              /\ entries[t][j].Status = "crashed"
              /\ entries[t][j].LastSeenAt # FormatRFC3339(now[t])

\* C4: the returned entries are in strictly ascending order of name and at
\* most 100; when the round produced more than 100 diffs exactly 100 are
\* returned, and they are the 100 smallest names.
C4_SortedAndCapped ==
    \A t \in DOMAIN pc :
        Collected(t) =>
            LET es == entries[t]
                all == {d.Name : d \in diffs[t]}
            IN  /\ \A i \in 1..(Len(es) - 1) : es[i].Name < es[i + 1].Name
                /\ Len(es) <= MaxEntries
                /\ Cardinality(diffs[t]) > MaxEntries =>
                      /\ Len(es) = MaxEntries
                      /\ EntryNames(es) \subseteq all
                      /\ \A n \in EntryNames(es) : \A m \in all \ EntryNames(es) : n < m
                /\ Cardinality(diffs[t]) <= MaxEntries => Len(es) = Cardinality(diffs[t])

C4_Witness ==
    \E t \in DOMAIN pc :
        /\ Finished(t)
        /\ Cardinality(diffs[t]) = MaxEntries + 2
        /\ Len(entries[t]) = MaxEntries
        /\ sent[t] # "none"

\* a failed round holds no entries, has sent nothing and has left the
\* snapshot of the last successful round in place; a successful round diffs
\* against the snapshot of the last successful round before it
C5_FailedRoundState ==
    \A t \in DOMAIN pc :
        /\ err[t] =>
              /\ pc[t] = "done"
              /\ entries[t] = <<>>
              /\ sent[t] = "none"
              /\ lastOK.valid => previous = lastOK.snapshot
        /\ (~err[t] /\ pc[t] \in {"diffed", "replaced", "collected", "done"}
                /\ lastOK.valid) =>
              prevBefore[t] = lastOK.snapshot

\* the step in which the listing fails ends the round and leaves the snapshot
C5_FailedRoundStep ==
    \A t \in DOMAIN pc :
        (pc[t] \in {"idle", "done"} /\ err'[t]) =>
            /\ previous' = previous
            /\ pc'[t] = "done"

\* C5: when the process listing fails, the round returns an error and no
\* entries, dispatches nothing, and leaves the stored snapshot as it was
\* (equal to the snapshot left by the last successful round); the next
\* successful round diffs against that snapshot.
C5_ListingFailureAtomic == []C5_FailedRoundState /\ [][C5_FailedRoundStep]_vars

C5_Witness ==
    \E t \in DOMAIN pc :
        /\ err[t]
        /\ pc[t] = "done"
        /\ lastOK.valid
        /\ previous # EmptyMap

\* a step that changes the snapshot while t is past its listing is t's own
C6_NoForeignReplace ==
    \A t \in DOMAIN pc :
        (pc[t] \in {"listed", "locked", "diffed"} /\ previous' # previous) =>
            pc'[t] = "replaced"

\* C6: while a round is between its process listing and its own snapshot
\* replacement, no other round replaces the stored snapshot.
C6_SingleCriticalSection == [][C6_NoForeignReplace]_vars

\* C7 as stated: when two consecutive successful rounds see the same process
\* set, both rounds emit only running entries with restart_count 0 and the
\* snapshot (names, PID sets) after the second equals that after the first.
SteadyPair(t) ==
    /\ Finished(t)
    /\ lastOK.valid
    /\ SameProcessSet(lastOK.current, current[t])

SameSnapshot(a, b) == SameProcessSet(SnapshotPids(a), SnapshotPids(b))

----------------------------------------------------------------------------
(* Properties of samePIDs *)

\* C8: samePIDs(a, b) is true exactly when a and b hold the same set of
\* PIDs, whatever the order and the duplicates (nil and empty being equal).
C8_SetEquality ==
    spDone => (spOut <=> (PidSet(spA) = PidSet(spB)))

----------------------------------------------------------------------------
(* Properties of nextSleep *)

\* the product interval * m over the integers (five limbs, nothing lost)
WideMul(d, m) ==
    LET x == <<d[1] * m, d[2] * m, d[3] * m, d[4] * m>>
        c1 == x[1] \div Limb
        y2 == x[2] + c1
        c2 == y2 \div Limb
        y3 == x[3] + c2
        c3 == y3 \div Limb
        y4 == x[4] + c3
    IN  <<x[1] % Limb, y2 % Limb, y3 % Limb, y4 % Limb, y4 \div Limb>>
Wide(d) == WideMul(d, 1)
WideMin(a, b) == IF ULess(b, a) THEN b ELSE a
WideMax(a, b) == IF ULess(a, b) THEN b ELSE a

\* min(interval * 2^min(failCount,4), 60s) raised to at least interval
C10_Expected(interval, fails) ==
    IF fails <= 0 THEN Wide(interval)
    ELSE WideMax(WideMin(WideMul(interval, 2 ^ minInt(fails, 4)),
                         Wide(SixtySeconds)),
                 Wide(interval))

C10_TableFor10s ==
    LET row == [f \in {0, 1, 2, 3, 4, 10} |->
                   CASE f = 0 -> 10 [] f = 1 -> 20 [] f = 2 -> 40 [] OTHER -> 60]
    IN  (nsInterval = Seconds(10) /\ nsFailCount \in DOMAIN row) =>
            nsOut = Seconds(row[nsFailCount])

\* C10: for a positive interval, nextSleep returns interval when
\* failCount <= 0 and otherwise min(interval * 2^min(failCount,4), 60s)
\* raised to at least interval; for 10s and failCount 0,1,2,3,4,10 it
\* returns 10,20,40,60,60,60 seconds.
C10_NextSleepValue ==
    nsOut # <<>> =>
        /\ Wide(nsOut) = C10_Expected(nsInterval, nsFailCount)
        /\ nsFailCount <= 0 => nsOut = nsInterval
        /\ C10_TableFor10s

C10_Witness ==
    /\ nsOut = Seconds(40)
    /\ nsInterval = Seconds(10)
    /\ nsFailCount = 2

\* a <= b on durations
DurLeq(a, b) == ~DurLess(b, a)

\* C11 as stated: for every positive interval and every failCount the delay
\* returned by nextSleep is at most 60 seconds.
C11_AtMostSixty ==
    nsOut # <<>> => DurLeq(nsOut, SixtySeconds)

\* C11 amended: the delay is at most the larger of 60 seconds and interval:
\* at most 60 seconds when interval <= 60s, and exactly interval when
\* interval > 60s.
C11_AtMostSixtyOrInterval ==
    nsOut # <<>> =>
        /\ DurLeq(nsInterval, SixtySeconds) => DurLeq(nsOut, SixtySeconds)
        /\ DurLess(SixtySeconds, nsInterval) => nsOut = nsInterval

C11_Witness ==
    /\ nsOut = SixtySeconds
    /\ nsInterval = Seconds(10)
    /\ nsFailCount = 3

\* C12: for every positive interval and every failCount the delay returned
\* by nextSleep is at least interval, also when interval * 16 overflows the
\* 64-bit duration.
C12_AtLeastInterval ==
    nsOut # <<>> => DurLeq(nsInterval, nsOut)

C12_Witness ==
    /\ nsOut = nsInterval
    /\ nsFailCount = 4
    /\ DurNeg(DurMul(nsInterval, 16))

\* C13: nextSleep is non-decreasing in failCount: the delay for failCount is
\* at least the delay for every smaller failCount, at the same interval.
C13_Monotonic ==
    nsOut # <<>> =>
        \A f \in (-2)..nsFailCount : DurLeq(nextSleep(nsInterval, f), nsOut)

C13_Witness ==
    /\ nsOut = SixtySeconds
    /\ nsFailCount = 3
    /\ nextSleep(nsInterval, 2) = Seconds(40)
    /\ nextSleep(nsInterval, 0) = Seconds(10)

----------------------------------------------------------------------------
(* Properties of the metrics loop *)

\* a dispatch failed: transport error, timeout, or a rejected HTTP status
DispatchFailed(resp) == resp.Err # "" \/ resp.StatusCode >= 300

\* the number of failed dispatches at the end of the history
RECURSIVE TrailingFailures(_)
TrailingFailures(h) ==
    IF h = <<>> \/ ~DispatchFailed(h[Len(h)]) THEN 0
    ELSE 1 + TrailingFailures(SubSeq(h, 1, Len(h) - 1))

\* C9: after every round failCount is the number of consecutive failed
\* metrics dispatches ending at that round: 0 after a success, one more
\* after a failure of any kind.
C9_FailCountTracksFailures ==
    failCount = TrailingFailures(outcomes)

C9_Witness ==
    /\ Len(outcomes) = 3
    /\ ~DispatchFailed(outcomes[1])
    /\ outcomes[2].Err = "timeout"
    /\ outcomes[3].StatusCode = 401
    /\ failCount = 2

\* d <= e, for the d and e of a round
NoWaitLeft(d, e) == DurLeq(d, e)

C14_PaceStep ==
    (agPc = "pace" /\ agPc' # "pace") =>
        /\ sleepFor' = nextSleep(cfgInterval, TrailingFailures(outcomes))
        /\ NoWaitLeft(sleepFor', elapsed') => agPc' = "top"
        /\ ~NoWaitLeft(sleepFor', elapsed') =>
              /\ agPc' \in {"sleeping", "waiting"}
              /\ DurLess(DurZero, wait')
              /\ DurSub(sleepFor', wait') = elapsed'

C14_WaitStep ==
    (agPc \in {"sleeping", "waiting"} /\ agPc' # agPc) =>
        \/ agPc' = "top"
        \/ agPc = "waiting" /\ stopCh = "closed" /\ agPc' = "stopped"

C14_DispatchStep ==
    /\ outcomes' # outcomes =>
          /\ agPc = "top" /\ agPc' = "iface"
          /\ Len(outcomes') = Len(outcomes) + 1
    /\ (agPc = "top" /\ agPc' # "top") =>
          agPc' = "stopped" \/ outcomes' # outcomes
    /\ (netSent' # netSent /\ netSent' # "none") => agPc = "iface"

\* C14: with d = nextSleep(interval, failCount) taken after the round's
\* failCount update and e the time the round took: when d - e <= 0 the loop
\* goes straight to the next round; otherwise it waits d - e and reaches
\* the next round only when the wait is over, unless the stop signal ends
\* the wait; every pass through the top either stops or dispatches exactly
\* once, and a dispatch happens nowhere else in the round.
C14_RoundPacing ==
    [][C14_PaceStep /\ C14_WaitStep /\ C14_DispatchStep]_vars

C14_Witness ==
    /\ agPc = "waiting"
    /\ failCount = 1
    /\ sleepFor = Seconds(20)
    /\ elapsed = Seconds(15)
    /\ wait = Seconds(5)

C15_Step ==
    /\ stopCh = "closed" => outcomes' = outcomes
    /\ (agPc = "iface" /\ agPc' # agPc) => agPc' = "pace"
    /\ (agPc = "pace" /\ agPc' # agPc) =>
          agPc' \in {"top", "sleeping", "waiting"}
    /\ (agPc' = "stopped" /\ agPc # "stopped") =>
          stopCh = "closed" /\ agPc \in {"top", "waiting"}

\* C15: once the stop signal is raised no further round is started; a round
\* in progress still runs its per-interface part and its pacing step, the
\* loop is left only at its top or from the wait, and after the signal
\* the loop eventually returns.
C15_Cancellation ==
    /\ [][C15_Step]_vars
    /\ (stopCh = "closed") ~> (agPc = "stopped")

C15_Witness ==
    /\ agPc = "stopped"
    /\ stopCh = "closed"
    /\ Len(outcomes) = 2
    /\ DurLess(DurZero, wait)

\* C16: the loop returns only after the stop signal; whatever the reads and
\* dispatches answer, it goes on to further rounds (here: until MaxRounds
\* rounds are done) unless the signal is raised.
C16_NeverStopsItself ==
    /\ [](agPc = "stopped" => stopCh = "closed")
    /\ <>(stopCh = "closed" \/ Len(outcomes) = MaxRounds)

C16_Witness ==
    /\ agPc = "top"
    /\ stopCh = "nil"
    /\ Len(outcomes) = MaxRounds
    /\ failCount = MaxRounds

----------------------------------------------------------------------------
(* Properties of safeDelta and netDelta *)

\* a + b on uint64 (wrapping)
U64Add(a, b) == Wrap64(<<a[1] + b[1], a[2] + b[2], a[3] + b[3], a[4] + b[4]>>)

\* the signed number v is the difference curr - prev of the two counters
IsDifference(v, prev, curr) == ~DurNeg(v) /\ U64Add(prev, v) = curr

\* C17: safeDelta(prev, curr) returns (curr - prev, true) whenever
\* curr >= prev, (0, true) when they are equal, and (0, false) when
\* curr < prev.
C17_SafeDeltaValue ==
    sdSafeDone =>
        IF ULess(sdCurr.In, sdPrev.In)
        THEN sdSafe = [value |-> DurZero, ok |-> FALSE]
        ELSE /\ sdSafe.ok
             /\ IsDifference(sdSafe.value, sdPrev.In, sdCurr.In)

\* C18: no value returned by safeDelta or netDelta is negative, for all
\* uint64 counters.
C18_NeverNegative ==
    /\ sdSafeDone => ~DurNeg(sdSafe.value)
    /\ sdNetDone => ~DurNeg(sdNet[1]) /\ ~DurNeg(sdNet[2])

----------------------------------------------------------------------------
(* Properties of the per-interface metrics *)

\* a counter of interface n is lower in the round's reading than before
Decreased(n) ==
    \E c \in Counters :
        ULess(ifaceCall.read.Stats[n][c], ifaceCall.prev[n][c])

EmittedIfaces == {m.Iface : m \in ifaceMetrics}

\* C19: after the per-interface step of a round, every entry is for an
\* interface that is in the previous sample and in the reading with none
\* of its six counters decreased, and carries all six deltas; an
\* interface with a decreased counter has no entry; the network dispatch
\* is made only when there is an entry.
C19_AllOrNothing ==
    ifaceCall.called =>
        /\ \A m \in ifaceMetrics :
              /\ ifaceCall.hasPrev /\ ~ifaceCall.read.Err
              /\ m.Iface \in DOMAIN ifaceCall.prev \cap DOMAIN ifaceCall.read.Stats
              /\ ~Decreased(m.Iface)
              /\ DOMAIN m.Delta = Counters
        /\ \A n \in DOMAIN ifaceCall.prev \cap DOMAIN ifaceCall.read.Stats :
              Decreased(n) => n \notin EmittedIfaces
        /\ Cardinality(ifaceMetrics) = Cardinality(EmittedIfaces)
        /\ netSent # "none" => ifaceMetrics # {}

C19_Witness ==
    /\ ifaceCall.called
    /\ DOMAIN ifaceCall.prev = {"eth0", "eth1"}
    /\ DOMAIN ifaceCall.read.Stats = {"eth0", "eth1"}
    /\ Decreased("eth0")
    /\ EmittedIfaces = {"eth1"}
    /\ netSent = "ok"

\* C20: an interface read for the first time, or absent from the previous
\* sample, has no entry; the first per-interface round of the agent, and
\* every round without a previous sample, emits nothing and makes no
\* network dispatch.
C20_NoFirstDelta ==
    ifaceCall.called =>
        /\ EmittedIfaces \subseteq ifaceCall.seen \cap DOMAIN ifaceCall.prev
        /\ (Len(outcomes) = 1 \/ ~ifaceCall.hasPrev) =>
              ifaceMetrics = {} /\ netSent = "none"

C20_Witness ==
    /\ ifaceCall.called
    /\ "eth1" \in DOMAIN ifaceCall.read.Stats
    /\ "eth1" \notin ifaceCall.seen
    /\ EmittedIfaces = {"eth0"}
    /\ netSent # "none"

----------------------------------------------------------------------------
(* Properties of the network fields and snapshots *)

\* the aggregate reading of the round in progress
NetRead == metricsCall.read.Net

\* the round compared two aggregate readings
NetCompared == metricsCall.called /\ metricsCall.hasPrev /\ ~NetRead.Err

InDecreased == ULess(NetRead.Totals.In, metricsCall.prev.In)
OutDecreased == ULess(NetRead.Totals.Out, metricsCall.prev.Out)

\* C21: when a counter decreased between the two samples of a round, the
\* dispatched payloads carry no value for it: the metrics payload has no
\* net_in (net_out) field when the aggregate In (Out) counter decreased,
\* and the per-interface payload has no entry for an interface with a
\* decreased counter.
C21_ResetSuppressed ==
    /\ NetCompared =>
          /\ InDecreased => "NetIn" \notin MarshalledFields(payload)
          /\ OutDecreased => "NetOut" \notin MarshalledFields(payload)
    /\ ifaceCall.called =>
          \A n \in DOMAIN ifaceCall.prev \cap DOMAIN ifaceCall.read.Stats :
              Decreased(n) => n \notin EmittedIfaces

\* C22: net_in and net_out of the metrics payload are 0 without a previous
\* aggregate or after a failed network read, 0 when either aggregate
\* counter decreased, and otherwise the differences curr.In - prev.In and
\* curr.Out - prev.Out.
C22_NetFields ==
    metricsCall.called =>
        IF ~NetCompared \/ InDecreased \/ OutDecreased
        THEN payload.NetIn = DurZero /\ payload.NetOut = DurZero
        ELSE /\ IsDifference(payload.NetIn, metricsCall.prev.In,
                             NetRead.Totals.In)
             /\ IsDifference(payload.NetOut, metricsCall.prev.Out,
                             NetRead.Totals.Out)

\* the step is the metrics part of a round
MetricsStep == outcomes' # outcomes
\* the step is the per-interface part of a round
IfaceStep == ifaceCall'.called /\ ~ifaceCall.called

\* C23 as stated: every round replaces prevNet by the round's aggregate
\* reading and prevIfaces by the round's per-interface reading.
C23_ReplacedEveryRound ==
    [][/\ MetricsStep =>
            hasPrev' /\ prevNet' = metricsCall'.read.Net.Totals
       /\ IfaceStep =>
            hasPrevIfaces' /\ prevIfaces' = ifaceCall'.read.Stats]_vars

\* C23 amended: a snapshot is only ever replaced as a whole by the round's
\* reading: prevNet in the rounds whose network read and metrics dispatch
\* both succeeded, prevIfaces in the rounds whose interface read succeeded
\* with at least one interface; in every other round, and in every other
\* step, the snapshot stays as it was.
C23_ReplacedOnSuccess ==
    [][/\ MetricsStep =>
            IF ~metricsCall'.read.Net.Err
                   /\ ~DispatchFailed(outcomes'[Len(outcomes')])
            THEN hasPrev' /\ prevNet' = metricsCall'.read.Net.Totals
            ELSE UNCHANGED <<prevNet, hasPrev>>
       /\ IfaceStep =>
            IF ~ifaceCall'.read.Err /\ ifaceCall'.read.Stats # EmptyMap
            THEN hasPrevIfaces' /\ prevIfaces' = ifaceCall'.read.Stats
            ELSE UNCHANGED <<prevIfaces, hasPrevIfaces>>
       /\ ~MetricsStep => UNCHANGED <<prevNet, hasPrev>>
       /\ ~IfaceStep => UNCHANGED <<prevIfaces, hasPrevIfaces>>]_vars

C23_Witness ==
    /\ NetCompared
    /\ DispatchFailed(outcomes[Len(outcomes)])
    /\ prevNet = metricsCall.prev
    /\ prevNet # NetRead.Totals

----------------------------------------------------------------------------
(* Properties of the provider reads *)

\* what the round's payload holds for a percentage read
AsRead(r) == IF r.Err THEN 0 ELSE r.Val

C24_Payload ==
    metricsCall.called =>
        /\ payload.CPU = AsRead(metricsCall.read.Cpu)
        /\ payload.Mem = AsRead(metricsCall.read.Mem)
        /\ payload.Disk = AsRead(metricsCall.read.Disk)
        /\ NetRead.Err => payload.NetIn = DurZero /\ payload.NetOut = DurZero
        /\ NetCompared /\ ~InDecreased /\ ~OutDecreased =>
              /\ IsDifference(payload.NetIn, metricsCall.prev.In,
                              NetRead.Totals.In)
              /\ IsDifference(payload.NetOut, metricsCall.prev.Out,
                              NetRead.Totals.Out)

C24_RoundStep ==
    (agPc = "top" /\ agPc' # "top" /\ agPc' # "stopped") =>
        /\ metricsCall'.called
        /\ Len(outcomes') = Len(outcomes) + 1

\* C24: whichever of the cpu, memory, disk and network reads fail, the round
\* builds a payload and attempts its dispatch; a failed read makes only its
\* own fields 0, the fields of the other providers are as read.
C24_ProvidersIndependent ==
    /\ []C24_Payload
    /\ [][C24_RoundStep]_vars

C24_Witness ==
    /\ NetCompared
    /\ metricsCall.read.Cpu.Err /\ payload.CPU = 0
    /\ metricsCall.read.Disk.Err /\ payload.Disk = 0
    /\ ~metricsCall.read.Mem.Err /\ payload.Mem = 20
    /\ metricsCall.prev.In = NetRead.Totals.In
    /\ Len(outcomes) = 2

\* what the delay of the metrics loop is computed from (lines 263-264)
DelayInputs == <<cfgInterval, failCount>>

\* a step in which a dispatch of another data kind fails
WatchdogDispatchFails ==
    pc[1] = "collected" /\ pc'[1] = "done" /\ sent'[1] = "failed"
NetworkDispatchFails == agPc = "iface" /\ netSent' = "failed"
StatelessDispatchFails == dsVars' # dsVars /\ sendErr' = "error"

\* C25: failCount changes only in the step that dispatches the metrics, by
\* the outcome of that dispatch; the interval never changes and the delay is
\* recomputed from the two only when the loop paces itself; a failed
\* watchdog, per-interface network, processes, logs or service-discovery
\* dispatch leaves failCount and the next metrics delay as they were.
C25_Step ==
    /\ failCount' # failCount =>
          /\ agPc = "top" /\ agPc' = "iface"
          /\ Len(outcomes') = Len(outcomes) + 1
          /\ failCount' = IF sendMetricsOK(outcomes'[Len(outcomes')]) THEN 0
                          ELSE failCount + 1
    /\ cfgInterval' = cfgInterval
    /\ sleepFor' # sleepFor =>
          agPc = "pace" /\ sleepFor' = nextSleep(cfgInterval, failCount)
    /\ WatchdogDispatchFails \/ NetworkDispatchFails \/ StatelessDispatchFails =>
          /\ DelayInputs' = DelayInputs
          /\ sleepFor' = sleepFor
C25_IndependentBackoff == [][C25_Step]_vars

\* the watchdog, the per-interface and a stateless dispatch have all failed
\* while the metrics were delivered every time
C25_Witness ==
    /\ sent[1] = "failed"
    /\ netSent = "failed"
    /\ sendErr = "error"
    /\ Len(outcomes) = 2
    /\ failCount = 0

\* C27: whichever dispatch function is called, it returns an error for every
\* transport error and every response with a status >= 300, and nil for a
\* 200 response.
C27_StatusRules ==
    sendErr # "pending" =>
        /\ DispatchFailed(sendResp) => sendErr = "error"
        /\ sendResp = Response("", 200) => sendErr = "nil"

\* between wdState.mu.Lock() and the deferred Unlock
InCritical(t) == pc[t] \in {"locked", "diffed", "made", "replaced"}

\* the initial map, or what one round stores for one listing at one time
WrittenInFull(m) ==
    \/ m = EmptyMap
    \/ \E ps \in LockListings, n \in 0..MaxTime :
          m = NewSnapshot(BuildCurrent(ps), n)

C26_MutualExclusion ==
    \A t \in DOMAIN pc :
        InCritical(t) =>
            /\ mu = t
            /\ \A u \in DOMAIN pc : InCritical(u) => u = t

\* the step of t that reads the stored snapshot, and a step that writes it
ReadsPrevious(t) == pc[t] = "locked" /\ pc'[t] = "diffed"
C26_AccessStep ==
    /\ previous' # previous =>
          \E t \in DOMAIN pc : mu = t /\ pc[t] \in {"diffed", "made"}
    /\ \A t \in DOMAIN pc :
          ReadsPrevious(t) =>
              /\ mu = t
              /\ \A u \in DOMAIN pc : pc[u] # "made"
              /\ WrittenInFull(previous)
              /\ prevBefore'[t] = previous

\* C26: with overlapping calls of collectWatchdog at most one call at a time
\* is between Lock and Unlock, only that call reads or writes the stored
\* snapshot, and the snapshot a call compares against is the initial map or
\* the complete map stored by one earlier round, never one being refilled.
C26_Serialized == []C26_MutualExclusion /\ [][C26_AccessStep]_vars

\* one call is half way through refilling the map while the other, its
\* listing done, waits for the mutex
C26_Witness ==
    /\ pc[1] = "made"
    /\ previous # EmptyMap
    /\ PendingNames(1) # {}
    /\ pc[2] = "listed"

\* the largest number of seconds a time.Duration can hold: 9223372036
MaxSeconds == Dur(32004, 9665, 2, 0)

\* the duration d is n seconds
IsSeconds(d, n) == ~ULess(MaxSeconds, n) /\ d = SecondsOf(n)

\* C28: with arguments that parse, loadConfig returns an error and the zero
\* Config when the URL or the token resolves to empty, or when no positive
\* -interval is given and INTERVAL_SECONDS is set to a non-integer or to a
\* value <= 0; otherwise it succeeds with Interval the positive flag value in
\* seconds, else INTERVAL_SECONDS, else 10 seconds, with Timeout 10 seconds
\* and BaseURL the URL without trailing slash.
C28_LoadConfig ==
    (lcDone /\ lcArgs.parseOK) =>
        LET a == lcArgs
            url == TrimSpace(firstNonEmpty(a.flagURL, a.envURL))
            token == TrimSpace(firstNonEmpty(a.flagToken, a.envToken))
            flagGiven == IntPositive(a.flagInterval)
            raw == TrimSpace(a.envInterval)
            envBad == raw # <<>> /\ (Atoi(raw).err \/ ~IntPositive(Atoi(raw).n))
            secs == IF flagGiven THEN a.flagInterval
                    ELSE IF raw # <<>> THEN Atoi(raw).n
                    ELSE U64(10)
        IN  IF url = <<>> \/ token = <<>> \/ (~flagGiven /\ envBad)
            THEN lcOut = ConfigError
            ELSE /\ ~lcOut.err
                 /\ IsSeconds(lcOut.cfg.Interval, secs)
                 /\ lcOut.cfg.Timeout = Seconds(10)
                 /\ lcOut.cfg.Token = token
                 /\ lcOut.cfg.BaseURL = TrimRight(url)
                 /\ lcOut.cfg.BaseURL = <<>>
                        \/ lcOut.cfg.BaseURL[Len(lcOut.cfg.BaseURL)] # "/"

\* the override whose name equals the process name up to letter case, if any
OverridesFor(process) ==
    {e \in NameLabels : process # "" /\ ToLower(e[1]) = ToLower(process)}
LabelsFor(port) == {e \in PortLabels : e[1] = port}

\* C29: the label is the process-name override (looked up without regard to
\* letter case) if there is one; else the well-known-port label if the port
\* has one; else the process name as given if it is not empty; else
\* "Port <port>".
C29_Precedence ==
    rsDone =>
        /\ \A e \in OverridesFor(rsProcess) : rsName = e[2]
        /\ OverridesFor(rsProcess) = {} =>
              /\ \A e \in LabelsFor(rsPort) : rsName = e[2]
              /\ LabelsFor(rsPort) = {} =>
                    rsName = IF rsProcess # "" THEN rsProcess
                             ELSE "Port " \o ToString(rsPort)

\* port 80 asked for a process named nginx in any letter case
C29_Witness ==
    /\ rsDone
    /\ rsPort = 80
    /\ rsProcess = "NGINX"
    /\ rsName = "Nginx"

\* C30: while runAgent runs, interval > 0 and failCount >= 0; failCount is 0
\* at the start and interval never changes.
C30_SchedulerState ==
    /\ failCount = 0
    /\ [](DurLess(DurZero, cfgInterval) /\ failCount >= 0)
    /\ [][cfgInterval' = cfgInterval]_vars

\* C35: samePIDs gives the same answer with its arguments exchanged, for
\* all PID lists, duplicates included.
C35_Symmetric ==
    spDone => (spOut <=> samePIDs(spB, spA))

\* the round's network read and its metrics dispatch both succeeded
BaselineAdvances ==
    /\ MetricsStep
    /\ ~metricsCall'.read.Net.Err
    /\ sendMetricsOK(outcomes'[Len(outcomes')])

\* C34: prevNet and hasPrev change only in a round whose network read and
\* metrics dispatch both succeeded; in every other step they stay as they
\* were, the round's deltas are taken from the baseline as it stood when the
\* round began, and hasPrev, once true, stays true.
C34_Step ==
    /\ <<prevNet, hasPrev>>' # <<prevNet, hasPrev>> => BaselineAdvances
    /\ hasPrev => hasPrev'
    /\ MetricsStep =>
          <<payload'.NetIn, payload'.NetOut>> =
              IF hasPrev /\ ~metricsCall'.read.Net.Err
              THEN netDelta(prevNet, metricsCall'.read.Net.Totals)
              ELSE <<DurZero, DurZero>>
C34_BaselineFrame == [][C34_Step]_vars

\* two rounds after a delivered one: the second was read but not delivered,
\* and the third measured from the first's reading
C34_Witness ==
    /\ Len(outcomes) = 3
    /\ sendMetricsOK(outcomes[1])
    /\ ~sendMetricsOK(outcomes[2])
    /\ NetCompared
    /\ metricsCall.prev = NetTotals(U64(1), U64(1))
    /\ NetRead.Totals = NetTotals(U64(2), U64(2))
    /\ payload.NetIn = U64(1)

\* C37: a Config returned without error has a non-empty BaseURL, a non-empty
\* Token and Interval > 0, whatever the flags and the environment.
C37_UsableConfig ==
    (lcDone /\ ~lcOut.err) =>
        /\ lcOut.cfg.BaseURL # <<>>
        /\ lcOut.cfg.Token # <<>>
        /\ DurLess(DurZero, lcOut.cfg.Interval)

\* the named processes of a listing and, for a name, its PIDs in the order
\* listed
ListedNames(ps) == {ps[i].Name : i \in 1..Len(ps)} \ {EmptyName}
ListedPids(ps, name) ==
    LET own == SelectSeq(ps, LAMBDA p : p.Name = name)
    IN  [i \in 1..Len(own) |-> own[i].Pid]
CrashedNames(es) == {e.Name : e \in {f \in es : f.Status = "crashed"}}

\* C31: once a successful round has replaced the snapshot, and until the
\* next round replaces it, the snapshot's names are the non-empty names the
\* round listed, each with the PIDs the round listed for it: names cut from
\* the output by the cap are stored, names reported as crashed are not.
C31_SnapshotIsListing ==
    \A t \in DOMAIN pc :
        (pc[t] \in {"replaced", "collected", "done"} /\ ~err[t]) =>
            /\ DOMAIN previous = ListedNames(procs[t])
            /\ \A n \in DOMAIN previous :
                  previous[n].PIDs = ListedPids(procs[t], n)
            /\ CrashedNames(diffs[t]) \cap DOMAIN previous = {}

\* a round whose output was cut by the cap and that reported a crash: a name
\* missing from the output is stored
C31_Witness ==
    \E t \in DOMAIN pc :
        /\ Finished(t)
        /\ Cardinality(diffs[t]) > MaxEntries
        /\ CrashedNames(diffs[t]) # {}
        /\ DOMAIN previous \ EntryNames(entries[t]) # {}

\* the entries of a round that carry the name n
EntriesOf(es, n) == {e \in es : e.Name = n}

\* C32: in a successful round that follows a successful round, a name is
\* reported crashed exactly when the earlier round listed it and this one
\* does not; a name the earlier round did not list is not reported while it
\* stays away, and is reported running with restart_count 0, not restarted,
\* when it is listed again.
C32_OneShotCrash ==
    \A t \in DOMAIN pc :
        (Collected(t) /\ lastOK.valid) =>
            /\ CrashedNames(diffs[t]) = DOMAIN lastOK.current \ DOMAIN current[t]
            /\ CrashedNames(diffs[t]) = CrashedNames(PidSet(entries[t]))
            /\ \A n \in VarNames \ DOMAIN lastOK.current :
                  /\ n \notin DOMAIN current[t] => EntriesOf(diffs[t], n) = {}
                  /\ n \in DOMAIN current[t] =>
                        \A e \in EntriesOf(diffs[t], n) :
                            e.Status = "running" /\ e.RestartCount = 0

\* the earlier round reported that every process was gone; this round lists
\* one again and reports it running
C32_Witness ==
    \E t \in DOMAIN pc :
        /\ Finished(t)
        /\ lastOK.valid
        /\ lastOK.current = EmptyMap
        /\ ~lastOK.allRunning
        /\ current[t] # EmptyMap
        /\ AllRunning(entries[t])

RestartedNames(es) == {e.Name : e \in {f \in es : f.Status = "restarted"}}

\* C33: the snapshot holds a round's listing from the replacement on,
\* before the dispatch and after it whatever its outcome; the round after a
\* failed dispatch diffs against the failed round's listing, so it reports
\* none of the failed round's crashed names as crashed and reports a name as
\* restarted only if its PIDs differ from those the failed round listed.
C33_SnapshotAdvances ==
    /\ (/\ pc[1] \in {"replaced", "collected", "done"}
        /\ ~err[1]
        /\ pc[2] \in {"idle", "listed", "locked", "diffed"}) =>
            previous = NewSnapshot(current[1], now[1])
    /\ (/\ pc[1] = "done"
        /\ sent[1] = "failed"
        /\ pc[2] \in {"diffed", "replaced", "collected", "done"}) =>
            /\ prevBefore[2] = NewSnapshot(current[1], now[1])
            /\ diffs[2] = DiffEntries(prevBefore[2], current[2], now[2])
            /\ CrashedNames(diffs[2]) \cap CrashedNames(diffs[1]) = {}
            /\ \A n \in RestartedNames(diffs[2]) :
                  ~samePIDs(current[1][n], current[2][n])

\* a round reported a crash or a restart and its dispatch failed; the round
\* after it was dispatched and reported running processes only
C33_Witness ==
    /\ pc[1] = "done"
    /\ sent[1] = "failed"
    /\ ~AllRunning(entries[1])
    /\ pc[2] = "done"
    /\ sent[2] # "none"
    /\ AllRunning(entries[2])

\* C36: a closed stop channel stays closed, also across a launch; a loop at
\* the top of its round with the channel closed does nothing but return, so
\* a loop launched after the close returns without a collection or a
\* dispatch; a loop running with a nil channel keeps the nil channel and does
\* not return.
C36_Step ==
    /\ stopCh = "closed" => stopCh' = "closed"
    /\ (agPc = "top" /\ stopCh = "closed") =>
          /\ agPc' = "stopped"
          /\ UNCHANGED <<cfgInterval, stopCh, failCount, prevNet, hasPrev,
                         payload, metricsCall, ifVars, paceVars, outcomes>>
    /\ (agPc # "stopped" /\ stopCh = "nil") =>
          agPc' # "stopped" /\ stopCh' = "nil"
C36_PermanentStop == [][C36_Step]_vars

\* a loop that was launched after an earlier loop had failed to dispatch and
\* had been stopped has returned with nothing counted
C36_Witness ==
    /\ agPc = "stopped"
    /\ stopCh = "closed"
    /\ Len(outcomes) > 0
    /\ ~sendMetricsOK(outcomes[Len(outcomes)])
    /\ failCount = 0
    /\ payload = NoPayload

============================================================================
